---- MODULE Spec2Model ----
(***************************************************************************)
(* Heading extraction of adobe-round1a: HeadingExtractor (app/extractor.py) *)
(* driven by process_pdfs (run.py).                                         *)
(*                                                                          *)
(* Text is a sequence of characters, each a string: the character itself    *)
(* when it is printable ASCII, else uXXXX, its code point in hexadecimal.   *)
(* The character tables are those of CPython 3.11 (Unicode 14.0.0).         *)
(*                                                                          *)
(* A font size or vertical position as pdfplumber supplies it ("raw") is    *)
(* the double nearest to an integer number of hundredths of a point; after  *)
(* round(x, 1) it is the double nearest to an integer number of tenths, and *)
(* these integers stand for the doubles.  Sums, quotients and products of   *)
(* sizes are computed as IEEE-754 doubles, round-to-nearest-even, on        *)
(* integers of any length.                                                  *)
(***************************************************************************)
EXTENDS Integers, Sequences, FiniteSets, TLC

VARIABLES files, file_idx, pc, page_num, char_idx, lines_by_font, line_idx,
          headings, size_thresholds, title, result, results,
          processed_files, outputs

vars == <<files, file_idx, pc, page_num, char_idx, lines_by_font, line_idx,
          headings, size_thresholds, title, result, results,
          processed_files, outputs>>

(***************************************************************************)
(* Characters and the str methods the classifier calls                      *)
(***************************************************************************)
\* the characters c with c.isspace(): what str.strip() and str.split() remove
\* (the escapes name the same characters as u0009, u000A, u000D, u000C)
Whitespace == {
    "u0009", "u000A", "u000B", "u000C", "u000D", "u001C", "u001D", "u001E",
    "u001F", " ", "u0085", "u00A0", "u1680", "u2000", "u2001", "u2002",
    "u2003", "u2004", "u2005", "u2006", "u2007", "u2008", "u2009", "u200A",
    "u2028", "u2029", "u202F", "u205F", "u3000", "\t", "\n", "\r", "\f"}

\* the characters c with c.isdigit()
Digits == {
    "0", "1", "2", "3", "4", "5", "6", "7", "8", "9", "u00B2", "u00B3",
    "u00B9", "u0660", "u0661", "u0662", "u0663", "u0664", "u0665", "u0666",
    "u0667", "u0668", "u0669", "u06F0", "u06F1", "u06F2", "u06F3", "u06F4",
    "u06F5", "u06F6", "u06F7", "u06F8", "u06F9", "u07C0", "u07C1", "u07C2",
    "u07C3", "u07C4", "u07C5", "u07C6", "u07C7", "u07C8", "u07C9", "u0966",
    "u0967", "u0968", "u0969", "u096A", "u096B", "u096C", "u096D", "u096E",
    "u096F", "u09E6", "u09E7", "u09E8", "u09E9", "u09EA", "u09EB", "u09EC",
    "u09ED", "u09EE", "u09EF", "u0A66", "u0A67", "u0A68", "u0A69", "u0A6A",
    "u0A6B", "u0A6C", "u0A6D", "u0A6E", "u0A6F", "u0AE6", "u0AE7", "u0AE8",
    "u0AE9", "u0AEA", "u0AEB", "u0AEC", "u0AED", "u0AEE", "u0AEF", "u0B66",
    "u0B67", "u0B68", "u0B69", "u0B6A", "u0B6B", "u0B6C", "u0B6D", "u0B6E",
    "u0B6F", "u0BE6", "u0BE7", "u0BE8", "u0BE9", "u0BEA", "u0BEB", "u0BEC",
    "u0BED", "u0BEE", "u0BEF", "u0C66", "u0C67", "u0C68", "u0C69", "u0C6A",
    "u0C6B", "u0C6C", "u0C6D", "u0C6E", "u0C6F", "u0CE6", "u0CE7", "u0CE8",
    "u0CE9", "u0CEA", "u0CEB", "u0CEC", "u0CED", "u0CEE", "u0CEF", "u0D66",
    "u0D67", "u0D68", "u0D69", "u0D6A", "u0D6B", "u0D6C", "u0D6D", "u0D6E",
    "u0D6F", "u0DE6", "u0DE7", "u0DE8", "u0DE9", "u0DEA", "u0DEB", "u0DEC",
    "u0DED", "u0DEE", "u0DEF", "u0E50", "u0E51", "u0E52", "u0E53", "u0E54",
    "u0E55", "u0E56", "u0E57", "u0E58", "u0E59", "u0ED0", "u0ED1", "u0ED2",
    "u0ED3", "u0ED4", "u0ED5", "u0ED6", "u0ED7", "u0ED8", "u0ED9", "u0F20",
    "u0F21", "u0F22", "u0F23", "u0F24", "u0F25", "u0F26", "u0F27", "u0F28",
    "u0F29", "u1040", "u1041", "u1042", "u1043", "u1044", "u1045", "u1046",
    "u1047", "u1048", "u1049", "u1090", "u1091", "u1092", "u1093", "u1094",
    "u1095", "u1096", "u1097", "u1098", "u1099", "u1369", "u136A", "u136B",
    "u136C", "u136D", "u136E", "u136F", "u1370", "u1371", "u17E0", "u17E1",
    "u17E2", "u17E3", "u17E4", "u17E5", "u17E6", "u17E7", "u17E8", "u17E9",
    "u1810", "u1811", "u1812", "u1813", "u1814", "u1815", "u1816", "u1817",
    "u1818", "u1819", "u1946", "u1947", "u1948", "u1949", "u194A", "u194B",
    "u194C", "u194D", "u194E", "u194F", "u19D0", "u19D1", "u19D2", "u19D3",
    "u19D4", "u19D5", "u19D6", "u19D7", "u19D8", "u19D9", "u19DA", "u1A80",
    "u1A81", "u1A82", "u1A83", "u1A84", "u1A85", "u1A86", "u1A87", "u1A88",
    "u1A89", "u1A90", "u1A91", "u1A92", "u1A93", "u1A94", "u1A95", "u1A96",
    "u1A97", "u1A98", "u1A99", "u1B50", "u1B51", "u1B52", "u1B53", "u1B54",
    "u1B55", "u1B56", "u1B57", "u1B58", "u1B59", "u1BB0", "u1BB1", "u1BB2",
    "u1BB3", "u1BB4", "u1BB5", "u1BB6", "u1BB7", "u1BB8", "u1BB9", "u1C40",
    "u1C41", "u1C42", "u1C43", "u1C44", "u1C45", "u1C46", "u1C47", "u1C48",
    "u1C49", "u1C50", "u1C51", "u1C52", "u1C53", "u1C54", "u1C55", "u1C56",
    "u1C57", "u1C58", "u1C59", "u2070", "u2074", "u2075", "u2076", "u2077",
    "u2078", "u2079", "u2080", "u2081", "u2082", "u2083", "u2084", "u2085",
    "u2086", "u2087", "u2088", "u2089", "u2460", "u2461", "u2462", "u2463",
    "u2464", "u2465", "u2466", "u2467", "u2468", "u2474", "u2475", "u2476",
    "u2477", "u2478", "u2479", "u247A", "u247B", "u247C", "u2488", "u2489",
    "u248A", "u248B", "u248C", "u248D", "u248E", "u248F", "u2490", "u24EA",
    "u24F5", "u24F6", "u24F7", "u24F8", "u24F9", "u24FA", "u24FB", "u24FC",
    "u24FD", "u24FF", "u2776", "u2777", "u2778", "u2779", "u277A", "u277B",
    "u277C", "u277D", "u277E", "u2780", "u2781", "u2782", "u2783", "u2784",
    "u2785", "u2786", "u2787", "u2788", "u278A", "u278B", "u278C", "u278D",
    "u278E", "u278F", "u2790", "u2791", "u2792", "uA620", "uA621", "uA622",
    "uA623", "uA624", "uA625", "uA626", "uA627", "uA628", "uA629", "uA8D0",
    "uA8D1", "uA8D2", "uA8D3", "uA8D4", "uA8D5", "uA8D6", "uA8D7", "uA8D8",
    "uA8D9", "uA900", "uA901", "uA902", "uA903", "uA904", "uA905", "uA906",
    "uA907", "uA908", "uA909", "uA9D0", "uA9D1", "uA9D2", "uA9D3", "uA9D4",
    "uA9D5", "uA9D6", "uA9D7", "uA9D8", "uA9D9", "uA9F0", "uA9F1", "uA9F2",
    "uA9F3", "uA9F4", "uA9F5", "uA9F6", "uA9F7", "uA9F8", "uA9F9", "uAA50",
    "uAA51", "uAA52", "uAA53", "uAA54", "uAA55", "uAA56", "uAA57", "uAA58",
    "uAA59", "uABF0", "uABF1", "uABF2", "uABF3", "uABF4", "uABF5", "uABF6",
    "uABF7", "uABF8", "uABF9", "uFF10", "uFF11", "uFF12", "uFF13", "uFF14",
    "uFF15", "uFF16", "uFF17", "uFF18", "uFF19", "u104A0", "u104A1", "u104A2",
    "u104A3", "u104A4", "u104A5", "u104A6", "u104A7", "u104A8", "u104A9",
    "u10A40", "u10A41", "u10A42", "u10A43", "u10D30", "u10D31", "u10D32",
    "u10D33", "u10D34", "u10D35", "u10D36", "u10D37", "u10D38", "u10D39",
    "u10E60", "u10E61", "u10E62", "u10E63", "u10E64", "u10E65", "u10E66",
    "u10E67", "u10E68", "u11052", "u11053", "u11054", "u11055", "u11056",
    "u11057", "u11058", "u11059", "u1105A", "u11066", "u11067", "u11068",
    "u11069", "u1106A", "u1106B", "u1106C", "u1106D", "u1106E", "u1106F",
    "u110F0", "u110F1", "u110F2", "u110F3", "u110F4", "u110F5", "u110F6",
    "u110F7", "u110F8", "u110F9", "u11136", "u11137", "u11138", "u11139",
    "u1113A", "u1113B", "u1113C", "u1113D", "u1113E", "u1113F", "u111D0",
    "u111D1", "u111D2", "u111D3", "u111D4", "u111D5", "u111D6", "u111D7",
    "u111D8", "u111D9", "u112F0", "u112F1", "u112F2", "u112F3", "u112F4",
    "u112F5", "u112F6", "u112F7", "u112F8", "u112F9", "u11450", "u11451",
    "u11452", "u11453", "u11454", "u11455", "u11456", "u11457", "u11458",
    "u11459", "u114D0", "u114D1", "u114D2", "u114D3", "u114D4", "u114D5",
    "u114D6", "u114D7", "u114D8", "u114D9", "u11650", "u11651", "u11652",
    "u11653", "u11654", "u11655", "u11656", "u11657", "u11658", "u11659",
    "u116C0", "u116C1", "u116C2", "u116C3", "u116C4", "u116C5", "u116C6",
    "u116C7", "u116C8", "u116C9", "u11730", "u11731", "u11732", "u11733",
    "u11734", "u11735", "u11736", "u11737", "u11738", "u11739", "u118E0",
    "u118E1", "u118E2", "u118E3", "u118E4", "u118E5", "u118E6", "u118E7",
    "u118E8", "u118E9", "u11950", "u11951", "u11952", "u11953", "u11954",
    "u11955", "u11956", "u11957", "u11958", "u11959", "u11C50", "u11C51",
    "u11C52", "u11C53", "u11C54", "u11C55", "u11C56", "u11C57", "u11C58",
    "u11C59", "u11D50", "u11D51", "u11D52", "u11D53", "u11D54", "u11D55",
    "u11D56", "u11D57", "u11D58", "u11D59", "u11DA0", "u11DA1", "u11DA2",
    "u11DA3", "u11DA4", "u11DA5", "u11DA6", "u11DA7", "u11DA8", "u11DA9",
    "u16A60", "u16A61", "u16A62", "u16A63", "u16A64", "u16A65", "u16A66",
    "u16A67", "u16A68", "u16A69", "u16AC0", "u16AC1", "u16AC2", "u16AC3",
    "u16AC4", "u16AC5", "u16AC6", "u16AC7", "u16AC8", "u16AC9", "u16B50",
    "u16B51", "u16B52", "u16B53", "u16B54", "u16B55", "u16B56", "u16B57",
    "u16B58", "u16B59", "u1D7CE", "u1D7CF", "u1D7D0", "u1D7D1", "u1D7D2",
    "u1D7D3", "u1D7D4", "u1D7D5", "u1D7D6", "u1D7D7", "u1D7D8", "u1D7D9",
    "u1D7DA", "u1D7DB", "u1D7DC", "u1D7DD", "u1D7DE", "u1D7DF", "u1D7E0",
    "u1D7E1", "u1D7E2", "u1D7E3", "u1D7E4", "u1D7E5", "u1D7E6", "u1D7E7",
    "u1D7E8", "u1D7E9", "u1D7EA", "u1D7EB", "u1D7EC", "u1D7ED", "u1D7EE",
    "u1D7EF", "u1D7F0", "u1D7F1", "u1D7F2", "u1D7F3", "u1D7F4", "u1D7F5",
    "u1D7F6", "u1D7F7", "u1D7F8", "u1D7F9", "u1D7FA", "u1D7FB", "u1D7FC",
    "u1D7FD", "u1D7FE", "u1D7FF", "u1E140", "u1E141", "u1E142", "u1E143",
    "u1E144", "u1E145", "u1E146", "u1E147", "u1E148", "u1E149", "u1E2F0",
    "u1E2F1", "u1E2F2", "u1E2F3", "u1E2F4", "u1E2F5", "u1E2F6", "u1E2F7",
    "u1E2F8", "u1E2F9", "u1E950", "u1E951", "u1E952", "u1E953", "u1E954",
    "u1E955", "u1E956", "u1E957", "u1E958", "u1E959", "u1F100", "u1F101",
    "u1F102", "u1F103", "u1F104", "u1F105", "u1F106", "u1F107", "u1F108",
    "u1F109", "u1F10A", "u1FBF0", "u1FBF1", "u1FBF2", "u1FBF3", "u1FBF4",
    "u1FBF5", "u1FBF6", "u1FBF7", "u1FBF8", "u1FBF9"}

\* the characters c with c.isupper()
UpperChars == {
    "A", "B", "C", "D", "E", "F", "G", "H", "I", "J", "K", "L", "M", "N", "O",
    "P", "Q", "R", "S", "T", "U", "V", "W", "X", "Y", "Z", "u00C0", "u00C1",
    "u00C2", "u00C3", "u00C4", "u00C5", "u00C6", "u00C7", "u00C8", "u00C9",
    "u00CA", "u00CB", "u00CC", "u00CD", "u00CE", "u00CF", "u00D0", "u00D1",
    "u00D2", "u00D3", "u00D4", "u00D5", "u00D6", "u00D8", "u00D9", "u00DA",
    "u00DB", "u00DC", "u00DD", "u00DE", "u0100", "u0102", "u0104", "u0106",
    "u0108", "u010A", "u010C", "u010E", "u0110", "u0112", "u0114", "u0116",
    "u0118", "u011A", "u011C", "u011E", "u0120", "u0122", "u0124", "u0126",
    "u0128", "u012A", "u012C", "u012E", "u0130", "u0132", "u0134", "u0136",
    "u0139", "u013B", "u013D", "u013F", "u0141", "u0143", "u0145", "u0147",
    "u014A", "u014C", "u014E", "u0150", "u0152", "u0154", "u0156", "u0158",
    "u015A", "u015C", "u015E", "u0160", "u0162", "u0164", "u0166", "u0168",
    "u016A", "u016C", "u016E", "u0170", "u0172", "u0174", "u0176", "u0178",
    "u0179", "u017B", "u017D", "u0181", "u0182", "u0184", "u0186", "u0187",
    "u0189", "u018A", "u018B", "u018E", "u018F", "u0190", "u0191", "u0193",
    "u0194", "u0196", "u0197", "u0198", "u019C", "u019D", "u019F", "u01A0",
    "u01A2", "u01A4", "u01A6", "u01A7", "u01A9", "u01AC", "u01AE", "u01AF",
    "u01B1", "u01B2", "u01B3", "u01B5", "u01B7", "u01B8", "u01BC", "u01C4",
    "u01C7", "u01CA", "u01CD", "u01CF", "u01D1", "u01D3", "u01D5", "u01D7",
    "u01D9", "u01DB", "u01DE", "u01E0", "u01E2", "u01E4", "u01E6", "u01E8",
    "u01EA", "u01EC", "u01EE", "u01F1", "u01F4", "u01F6", "u01F7", "u01F8",
    "u01FA", "u01FC", "u01FE", "u0200", "u0202", "u0204", "u0206", "u0208",
    "u020A", "u020C", "u020E", "u0210", "u0212", "u0214", "u0216", "u0218",
    "u021A", "u021C", "u021E", "u0220", "u0222", "u0224", "u0226", "u0228",
    "u022A", "u022C", "u022E", "u0230", "u0232", "u023A", "u023B", "u023D",
    "u023E", "u0241", "u0243", "u0244", "u0245", "u0246", "u0248", "u024A",
    "u024C", "u024E", "u0370", "u0372", "u0376", "u037F", "u0386", "u0388",
    "u0389", "u038A", "u038C", "u038E", "u038F", "u0391", "u0392", "u0393",
    "u0394", "u0395", "u0396", "u0397", "u0398", "u0399", "u039A", "u039B",
    "u039C", "u039D", "u039E", "u039F", "u03A0", "u03A1", "u03A3", "u03A4",
    "u03A5", "u03A6", "u03A7", "u03A8", "u03A9", "u03AA", "u03AB", "u03CF",
    "u03D2", "u03D3", "u03D4", "u03D8", "u03DA", "u03DC", "u03DE", "u03E0",
    "u03E2", "u03E4", "u03E6", "u03E8", "u03EA", "u03EC", "u03EE", "u03F4",
    "u03F7", "u03F9", "u03FA", "u03FD", "u03FE", "u03FF", "u0400", "u0401",
    "u0402", "u0403", "u0404", "u0405", "u0406", "u0407", "u0408", "u0409",
    "u040A", "u040B", "u040C", "u040D", "u040E", "u040F", "u0410", "u0411",
    "u0412", "u0413", "u0414", "u0415", "u0416", "u0417", "u0418", "u0419",
    "u041A", "u041B", "u041C", "u041D", "u041E", "u041F", "u0420", "u0421",
    "u0422", "u0423", "u0424", "u0425", "u0426", "u0427", "u0428", "u0429",
    "u042A", "u042B", "u042C", "u042D", "u042E", "u042F", "u0460", "u0462",
    "u0464", "u0466", "u0468", "u046A", "u046C", "u046E", "u0470", "u0472",
    "u0474", "u0476", "u0478", "u047A", "u047C", "u047E", "u0480", "u048A",
    "u048C", "u048E", "u0490", "u0492", "u0494", "u0496", "u0498", "u049A",
    "u049C", "u049E", "u04A0", "u04A2", "u04A4", "u04A6", "u04A8", "u04AA",
    "u04AC", "u04AE", "u04B0", "u04B2", "u04B4", "u04B6", "u04B8", "u04BA",
    "u04BC", "u04BE", "u04C0", "u04C1", "u04C3", "u04C5", "u04C7", "u04C9",
    "u04CB", "u04CD", "u04D0", "u04D2", "u04D4", "u04D6", "u04D8", "u04DA",
    "u04DC", "u04DE", "u04E0", "u04E2", "u04E4", "u04E6", "u04E8", "u04EA",
    "u04EC", "u04EE", "u04F0", "u04F2", "u04F4", "u04F6", "u04F8", "u04FA",
    "u04FC", "u04FE", "u0500", "u0502", "u0504", "u0506", "u0508", "u050A",
    "u050C", "u050E", "u0510", "u0512", "u0514", "u0516", "u0518", "u051A",
    "u051C", "u051E", "u0520", "u0522", "u0524", "u0526", "u0528", "u052A",
    "u052C", "u052E", "u0531", "u0532", "u0533", "u0534", "u0535", "u0536",
    "u0537", "u0538", "u0539", "u053A", "u053B", "u053C", "u053D", "u053E",
    "u053F", "u0540", "u0541", "u0542", "u0543", "u0544", "u0545", "u0546",
    "u0547", "u0548", "u0549", "u054A", "u054B", "u054C", "u054D", "u054E",
    "u054F", "u0550", "u0551", "u0552", "u0553", "u0554", "u0555", "u0556",
    "u10A0", "u10A1", "u10A2", "u10A3", "u10A4", "u10A5", "u10A6", "u10A7",
    "u10A8", "u10A9", "u10AA", "u10AB", "u10AC", "u10AD", "u10AE", "u10AF",
    "u10B0", "u10B1", "u10B2", "u10B3", "u10B4", "u10B5", "u10B6", "u10B7",
    "u10B8", "u10B9", "u10BA", "u10BB", "u10BC", "u10BD", "u10BE", "u10BF",
    "u10C0", "u10C1", "u10C2", "u10C3", "u10C4", "u10C5", "u10C7", "u10CD",
    "u13A0", "u13A1", "u13A2", "u13A3", "u13A4", "u13A5", "u13A6", "u13A7",
    "u13A8", "u13A9", "u13AA", "u13AB", "u13AC", "u13AD", "u13AE", "u13AF",
    "u13B0", "u13B1", "u13B2", "u13B3", "u13B4", "u13B5", "u13B6", "u13B7",
    "u13B8", "u13B9", "u13BA", "u13BB", "u13BC", "u13BD", "u13BE", "u13BF",
    "u13C0", "u13C1", "u13C2", "u13C3", "u13C4", "u13C5", "u13C6", "u13C7",
    "u13C8", "u13C9", "u13CA", "u13CB", "u13CC", "u13CD", "u13CE", "u13CF",
    "u13D0", "u13D1", "u13D2", "u13D3", "u13D4", "u13D5", "u13D6", "u13D7",
    "u13D8", "u13D9", "u13DA", "u13DB", "u13DC", "u13DD", "u13DE", "u13DF",
    "u13E0", "u13E1", "u13E2", "u13E3", "u13E4", "u13E5", "u13E6", "u13E7",
    "u13E8", "u13E9", "u13EA", "u13EB", "u13EC", "u13ED", "u13EE", "u13EF",
    "u13F0", "u13F1", "u13F2", "u13F3", "u13F4", "u13F5", "u1C90", "u1C91",
    "u1C92", "u1C93", "u1C94", "u1C95", "u1C96", "u1C97", "u1C98", "u1C99",
    "u1C9A", "u1C9B", "u1C9C", "u1C9D", "u1C9E", "u1C9F", "u1CA0", "u1CA1",
    "u1CA2", "u1CA3", "u1CA4", "u1CA5", "u1CA6", "u1CA7", "u1CA8", "u1CA9",
    "u1CAA", "u1CAB", "u1CAC", "u1CAD", "u1CAE", "u1CAF", "u1CB0", "u1CB1",
    "u1CB2", "u1CB3", "u1CB4", "u1CB5", "u1CB6", "u1CB7", "u1CB8", "u1CB9",
    "u1CBA", "u1CBD", "u1CBE", "u1CBF", "u1E00", "u1E02", "u1E04", "u1E06",
    "u1E08", "u1E0A", "u1E0C", "u1E0E", "u1E10", "u1E12", "u1E14", "u1E16",
    "u1E18", "u1E1A", "u1E1C", "u1E1E", "u1E20", "u1E22", "u1E24", "u1E26",
    "u1E28", "u1E2A", "u1E2C", "u1E2E", "u1E30", "u1E32", "u1E34", "u1E36",
    "u1E38", "u1E3A", "u1E3C", "u1E3E", "u1E40", "u1E42", "u1E44", "u1E46",
    "u1E48", "u1E4A", "u1E4C", "u1E4E", "u1E50", "u1E52", "u1E54", "u1E56",
    "u1E58", "u1E5A", "u1E5C", "u1E5E", "u1E60", "u1E62", "u1E64", "u1E66",
    "u1E68", "u1E6A", "u1E6C", "u1E6E", "u1E70", "u1E72", "u1E74", "u1E76",
    "u1E78", "u1E7A", "u1E7C", "u1E7E", "u1E80", "u1E82", "u1E84", "u1E86",
    "u1E88", "u1E8A", "u1E8C", "u1E8E", "u1E90", "u1E92", "u1E94", "u1E9E",
    "u1EA0", "u1EA2", "u1EA4", "u1EA6", "u1EA8", "u1EAA", "u1EAC", "u1EAE",
    "u1EB0", "u1EB2", "u1EB4", "u1EB6", "u1EB8", "u1EBA", "u1EBC", "u1EBE",
    "u1EC0", "u1EC2", "u1EC4", "u1EC6", "u1EC8", "u1ECA", "u1ECC", "u1ECE",
    "u1ED0", "u1ED2", "u1ED4", "u1ED6", "u1ED8", "u1EDA", "u1EDC", "u1EDE",
    "u1EE0", "u1EE2", "u1EE4", "u1EE6", "u1EE8", "u1EEA", "u1EEC", "u1EEE",
    "u1EF0", "u1EF2", "u1EF4", "u1EF6", "u1EF8", "u1EFA", "u1EFC", "u1EFE",
    "u1F08", "u1F09", "u1F0A", "u1F0B", "u1F0C", "u1F0D", "u1F0E", "u1F0F",
    "u1F18", "u1F19", "u1F1A", "u1F1B", "u1F1C", "u1F1D", "u1F28", "u1F29",
    "u1F2A", "u1F2B", "u1F2C", "u1F2D", "u1F2E", "u1F2F", "u1F38", "u1F39",
    "u1F3A", "u1F3B", "u1F3C", "u1F3D", "u1F3E", "u1F3F", "u1F48", "u1F49",
    "u1F4A", "u1F4B", "u1F4C", "u1F4D", "u1F59", "u1F5B", "u1F5D", "u1F5F",
    "u1F68", "u1F69", "u1F6A", "u1F6B", "u1F6C", "u1F6D", "u1F6E", "u1F6F",
    "u1FB8", "u1FB9", "u1FBA", "u1FBB", "u1FC8", "u1FC9", "u1FCA", "u1FCB",
    "u1FD8", "u1FD9", "u1FDA", "u1FDB", "u1FE8", "u1FE9", "u1FEA", "u1FEB",
    "u1FEC", "u1FF8", "u1FF9", "u1FFA", "u1FFB", "u2102", "u2107", "u210B",
    "u210C", "u210D", "u2110", "u2111", "u2112", "u2115", "u2119", "u211A",
    "u211B", "u211C", "u211D", "u2124", "u2126", "u2128", "u212A", "u212B",
    "u212C", "u212D", "u2130", "u2131", "u2132", "u2133", "u213E", "u213F",
    "u2145", "u2160", "u2161", "u2162", "u2163", "u2164", "u2165", "u2166",
    "u2167", "u2168", "u2169", "u216A", "u216B", "u216C", "u216D", "u216E",
    "u216F", "u2183", "u24B6", "u24B7", "u24B8", "u24B9", "u24BA", "u24BB",
    "u24BC", "u24BD", "u24BE", "u24BF", "u24C0", "u24C1", "u24C2", "u24C3",
    "u24C4", "u24C5", "u24C6", "u24C7", "u24C8", "u24C9", "u24CA", "u24CB",
    "u24CC", "u24CD", "u24CE", "u24CF", "u2C00", "u2C01", "u2C02", "u2C03",
    "u2C04", "u2C05", "u2C06", "u2C07", "u2C08", "u2C09", "u2C0A", "u2C0B",
    "u2C0C", "u2C0D", "u2C0E", "u2C0F", "u2C10", "u2C11", "u2C12", "u2C13",
    "u2C14", "u2C15", "u2C16", "u2C17", "u2C18", "u2C19", "u2C1A", "u2C1B",
    "u2C1C", "u2C1D", "u2C1E", "u2C1F", "u2C20", "u2C21", "u2C22", "u2C23",
    "u2C24", "u2C25", "u2C26", "u2C27", "u2C28", "u2C29", "u2C2A", "u2C2B",
    "u2C2C", "u2C2D", "u2C2E", "u2C2F", "u2C60", "u2C62", "u2C63", "u2C64",
    "u2C67", "u2C69", "u2C6B", "u2C6D", "u2C6E", "u2C6F", "u2C70", "u2C72",
    "u2C75", "u2C7E", "u2C7F", "u2C80", "u2C82", "u2C84", "u2C86", "u2C88",
    "u2C8A", "u2C8C", "u2C8E", "u2C90", "u2C92", "u2C94", "u2C96", "u2C98",
    "u2C9A", "u2C9C", "u2C9E", "u2CA0", "u2CA2", "u2CA4", "u2CA6", "u2CA8",
    "u2CAA", "u2CAC", "u2CAE", "u2CB0", "u2CB2", "u2CB4", "u2CB6", "u2CB8",
    "u2CBA", "u2CBC", "u2CBE", "u2CC0", "u2CC2", "u2CC4", "u2CC6", "u2CC8",
    "u2CCA", "u2CCC", "u2CCE", "u2CD0", "u2CD2", "u2CD4", "u2CD6", "u2CD8",
    "u2CDA", "u2CDC", "u2CDE", "u2CE0", "u2CE2", "u2CEB", "u2CED", "u2CF2",
    "uA640", "uA642", "uA644", "uA646", "uA648", "uA64A", "uA64C", "uA64E",
    "uA650", "uA652", "uA654", "uA656", "uA658", "uA65A", "uA65C", "uA65E",
    "uA660", "uA662", "uA664", "uA666", "uA668", "uA66A", "uA66C", "uA680",
    "uA682", "uA684", "uA686", "uA688", "uA68A", "uA68C", "uA68E", "uA690",
    "uA692", "uA694", "uA696", "uA698", "uA69A", "uA722", "uA724", "uA726",
    "uA728", "uA72A", "uA72C", "uA72E", "uA732", "uA734", "uA736", "uA738",
    "uA73A", "uA73C", "uA73E", "uA740", "uA742", "uA744", "uA746", "uA748",
    "uA74A", "uA74C", "uA74E", "uA750", "uA752", "uA754", "uA756", "uA758",
    "uA75A", "uA75C", "uA75E", "uA760", "uA762", "uA764", "uA766", "uA768",
    "uA76A", "uA76C", "uA76E", "uA779", "uA77B", "uA77D", "uA77E", "uA780",
    "uA782", "uA784", "uA786", "uA78B", "uA78D", "uA790", "uA792", "uA796",
    "uA798", "uA79A", "uA79C", "uA79E", "uA7A0", "uA7A2", "uA7A4", "uA7A6",
    "uA7A8", "uA7AA", "uA7AB", "uA7AC", "uA7AD", "uA7AE", "uA7B0", "uA7B1",
    "uA7B2", "uA7B3", "uA7B4", "uA7B6", "uA7B8", "uA7BA", "uA7BC", "uA7BE",
    "uA7C0", "uA7C2", "uA7C4", "uA7C5", "uA7C6", "uA7C7", "uA7C9", "uA7D0",
    "uA7D6", "uA7D8", "uA7F5", "uFF21", "uFF22", "uFF23", "uFF24", "uFF25",
    "uFF26", "uFF27", "uFF28", "uFF29", "uFF2A", "uFF2B", "uFF2C", "uFF2D",
    "uFF2E", "uFF2F", "uFF30", "uFF31", "uFF32", "uFF33", "uFF34", "uFF35",
    "uFF36", "uFF37", "uFF38", "uFF39", "uFF3A", "u10400", "u10401", "u10402",
    "u10403", "u10404", "u10405", "u10406", "u10407", "u10408", "u10409",
    "u1040A", "u1040B", "u1040C", "u1040D", "u1040E", "u1040F", "u10410",
    "u10411", "u10412", "u10413", "u10414", "u10415", "u10416", "u10417",
    "u10418", "u10419", "u1041A", "u1041B", "u1041C", "u1041D", "u1041E",
    "u1041F", "u10420", "u10421", "u10422", "u10423", "u10424", "u10425",
    "u10426", "u10427", "u104B0", "u104B1", "u104B2", "u104B3", "u104B4",
    "u104B5", "u104B6", "u104B7", "u104B8", "u104B9", "u104BA", "u104BB",
    "u104BC", "u104BD", "u104BE", "u104BF", "u104C0", "u104C1", "u104C2",
    "u104C3", "u104C4", "u104C5", "u104C6", "u104C7", "u104C8", "u104C9",
    "u104CA", "u104CB", "u104CC", "u104CD", "u104CE", "u104CF", "u104D0",
    "u104D1", "u104D2", "u104D3", "u10570", "u10571", "u10572", "u10573",
    "u10574", "u10575", "u10576", "u10577", "u10578", "u10579", "u1057A",
    "u1057C", "u1057D", "u1057E", "u1057F", "u10580", "u10581", "u10582",
    "u10583", "u10584", "u10585", "u10586", "u10587", "u10588", "u10589",
    "u1058A", "u1058C", "u1058D", "u1058E", "u1058F", "u10590", "u10591",
    "u10592", "u10594", "u10595", "u10C80", "u10C81", "u10C82", "u10C83",
    "u10C84", "u10C85", "u10C86", "u10C87", "u10C88", "u10C89", "u10C8A",
    "u10C8B", "u10C8C", "u10C8D", "u10C8E", "u10C8F", "u10C90", "u10C91",
    "u10C92", "u10C93", "u10C94", "u10C95", "u10C96", "u10C97", "u10C98",
    "u10C99", "u10C9A", "u10C9B", "u10C9C", "u10C9D", "u10C9E", "u10C9F",
    "u10CA0", "u10CA1", "u10CA2", "u10CA3", "u10CA4", "u10CA5", "u10CA6",
    "u10CA7", "u10CA8", "u10CA9", "u10CAA", "u10CAB", "u10CAC", "u10CAD",
    "u10CAE", "u10CAF", "u10CB0", "u10CB1", "u10CB2", "u118A0", "u118A1",
    "u118A2", "u118A3", "u118A4", "u118A5", "u118A6", "u118A7", "u118A8",
    "u118A9", "u118AA", "u118AB", "u118AC", "u118AD", "u118AE", "u118AF",
    "u118B0", "u118B1", "u118B2", "u118B3", "u118B4", "u118B5", "u118B6",
    "u118B7", "u118B8", "u118B9", "u118BA", "u118BB", "u118BC", "u118BD",
    "u118BE", "u118BF", "u16E40", "u16E41", "u16E42", "u16E43", "u16E44",
    "u16E45", "u16E46", "u16E47", "u16E48", "u16E49", "u16E4A", "u16E4B",
    "u16E4C", "u16E4D", "u16E4E", "u16E4F", "u16E50", "u16E51", "u16E52",
    "u16E53", "u16E54", "u16E55", "u16E56", "u16E57", "u16E58", "u16E59",
    "u16E5A", "u16E5B", "u16E5C", "u16E5D", "u16E5E", "u16E5F", "u1D400",
    "u1D401", "u1D402", "u1D403", "u1D404", "u1D405", "u1D406", "u1D407",
    "u1D408", "u1D409", "u1D40A", "u1D40B", "u1D40C", "u1D40D", "u1D40E",
    "u1D40F", "u1D410", "u1D411", "u1D412", "u1D413", "u1D414", "u1D415",
    "u1D416", "u1D417", "u1D418", "u1D419", "u1D434", "u1D435", "u1D436",
    "u1D437", "u1D438", "u1D439", "u1D43A", "u1D43B", "u1D43C", "u1D43D",
    "u1D43E", "u1D43F", "u1D440", "u1D441", "u1D442", "u1D443", "u1D444",
    "u1D445", "u1D446", "u1D447", "u1D448", "u1D449", "u1D44A", "u1D44B",
    "u1D44C", "u1D44D", "u1D468", "u1D469", "u1D46A", "u1D46B", "u1D46C",
    "u1D46D", "u1D46E", "u1D46F", "u1D470", "u1D471", "u1D472", "u1D473",
    "u1D474", "u1D475", "u1D476", "u1D477", "u1D478", "u1D479", "u1D47A",
    "u1D47B", "u1D47C", "u1D47D", "u1D47E", "u1D47F", "u1D480", "u1D481",
    "u1D49C", "u1D49E", "u1D49F", "u1D4A2", "u1D4A5", "u1D4A6", "u1D4A9",
    "u1D4AA", "u1D4AB", "u1D4AC", "u1D4AE", "u1D4AF", "u1D4B0", "u1D4B1",
    "u1D4B2", "u1D4B3", "u1D4B4", "u1D4B5", "u1D4D0", "u1D4D1", "u1D4D2",
    "u1D4D3", "u1D4D4", "u1D4D5", "u1D4D6", "u1D4D7", "u1D4D8", "u1D4D9",
    "u1D4DA", "u1D4DB", "u1D4DC", "u1D4DD", "u1D4DE", "u1D4DF", "u1D4E0",
    "u1D4E1", "u1D4E2", "u1D4E3", "u1D4E4", "u1D4E5", "u1D4E6", "u1D4E7",
    "u1D4E8", "u1D4E9", "u1D504", "u1D505", "u1D507", "u1D508", "u1D509",
    "u1D50A", "u1D50D", "u1D50E", "u1D50F", "u1D510", "u1D511", "u1D512",
    "u1D513", "u1D514", "u1D516", "u1D517", "u1D518", "u1D519", "u1D51A",
    "u1D51B", "u1D51C", "u1D538", "u1D539", "u1D53B", "u1D53C", "u1D53D",
    "u1D53E", "u1D540", "u1D541", "u1D542", "u1D543", "u1D544", "u1D546",
    "u1D54A", "u1D54B", "u1D54C", "u1D54D", "u1D54E", "u1D54F", "u1D550",
    "u1D56C", "u1D56D", "u1D56E", "u1D56F", "u1D570", "u1D571", "u1D572",
    "u1D573", "u1D574", "u1D575", "u1D576", "u1D577", "u1D578", "u1D579",
    "u1D57A", "u1D57B", "u1D57C", "u1D57D", "u1D57E", "u1D57F", "u1D580",
    "u1D581", "u1D582", "u1D583", "u1D584", "u1D585", "u1D5A0", "u1D5A1",
    "u1D5A2", "u1D5A3", "u1D5A4", "u1D5A5", "u1D5A6", "u1D5A7", "u1D5A8",
    "u1D5A9", "u1D5AA", "u1D5AB", "u1D5AC", "u1D5AD", "u1D5AE", "u1D5AF",
    "u1D5B0", "u1D5B1", "u1D5B2", "u1D5B3", "u1D5B4", "u1D5B5", "u1D5B6",
    "u1D5B7", "u1D5B8", "u1D5B9", "u1D5D4", "u1D5D5", "u1D5D6", "u1D5D7",
    "u1D5D8", "u1D5D9", "u1D5DA", "u1D5DB", "u1D5DC", "u1D5DD", "u1D5DE",
    "u1D5DF", "u1D5E0", "u1D5E1", "u1D5E2", "u1D5E3", "u1D5E4", "u1D5E5",
    "u1D5E6", "u1D5E7", "u1D5E8", "u1D5E9", "u1D5EA", "u1D5EB", "u1D5EC",
    "u1D5ED", "u1D608", "u1D609", "u1D60A", "u1D60B", "u1D60C", "u1D60D",
    "u1D60E", "u1D60F", "u1D610", "u1D611", "u1D612", "u1D613", "u1D614",
    "u1D615", "u1D616", "u1D617", "u1D618", "u1D619", "u1D61A", "u1D61B",
    "u1D61C", "u1D61D", "u1D61E", "u1D61F", "u1D620", "u1D621", "u1D63C",
    "u1D63D", "u1D63E", "u1D63F", "u1D640", "u1D641", "u1D642", "u1D643",
    "u1D644", "u1D645", "u1D646", "u1D647", "u1D648", "u1D649", "u1D64A",
    "u1D64B", "u1D64C", "u1D64D", "u1D64E", "u1D64F", "u1D650", "u1D651",
    "u1D652", "u1D653", "u1D654", "u1D655", "u1D670", "u1D671", "u1D672",
    "u1D673", "u1D674", "u1D675", "u1D676", "u1D677", "u1D678", "u1D679",
    "u1D67A", "u1D67B", "u1D67C", "u1D67D", "u1D67E", "u1D67F", "u1D680",
    "u1D681", "u1D682", "u1D683", "u1D684", "u1D685", "u1D686", "u1D687",
    "u1D688", "u1D689", "u1D6A8", "u1D6A9", "u1D6AA", "u1D6AB", "u1D6AC",
    "u1D6AD", "u1D6AE", "u1D6AF", "u1D6B0", "u1D6B1", "u1D6B2", "u1D6B3",
    "u1D6B4", "u1D6B5", "u1D6B6", "u1D6B7", "u1D6B8", "u1D6B9", "u1D6BA",
    "u1D6BB", "u1D6BC", "u1D6BD", "u1D6BE", "u1D6BF", "u1D6C0", "u1D6E2",
    "u1D6E3", "u1D6E4", "u1D6E5", "u1D6E6", "u1D6E7", "u1D6E8", "u1D6E9",
    "u1D6EA", "u1D6EB", "u1D6EC", "u1D6ED", "u1D6EE", "u1D6EF", "u1D6F0",
    "u1D6F1", "u1D6F2", "u1D6F3", "u1D6F4", "u1D6F5", "u1D6F6", "u1D6F7",
    "u1D6F8", "u1D6F9", "u1D6FA", "u1D71C", "u1D71D", "u1D71E", "u1D71F",
    "u1D720", "u1D721", "u1D722", "u1D723", "u1D724", "u1D725", "u1D726",
    "u1D727", "u1D728", "u1D729", "u1D72A", "u1D72B", "u1D72C", "u1D72D",
    "u1D72E", "u1D72F", "u1D730", "u1D731", "u1D732", "u1D733", "u1D734",
    "u1D756", "u1D757", "u1D758", "u1D759", "u1D75A", "u1D75B", "u1D75C",
    "u1D75D", "u1D75E", "u1D75F", "u1D760", "u1D761", "u1D762", "u1D763",
    "u1D764", "u1D765", "u1D766", "u1D767", "u1D768", "u1D769", "u1D76A",
    "u1D76B", "u1D76C", "u1D76D", "u1D76E", "u1D790", "u1D791", "u1D792",
    "u1D793", "u1D794", "u1D795", "u1D796", "u1D797", "u1D798", "u1D799",
    "u1D79A", "u1D79B", "u1D79C", "u1D79D", "u1D79E", "u1D79F", "u1D7A0",
    "u1D7A1", "u1D7A2", "u1D7A3", "u1D7A4", "u1D7A5", "u1D7A6", "u1D7A7",
    "u1D7A8", "u1D7CA", "u1E900", "u1E901", "u1E902", "u1E903", "u1E904",
    "u1E905", "u1E906", "u1E907", "u1E908", "u1E909", "u1E90A", "u1E90B",
    "u1E90C", "u1E90D", "u1E90E", "u1E90F", "u1E910", "u1E911", "u1E912",
    "u1E913", "u1E914", "u1E915", "u1E916", "u1E917", "u1E918", "u1E919",
    "u1E91A", "u1E91B", "u1E91C", "u1E91D", "u1E91E", "u1E91F", "u1E920",
    "u1E921", "u1F130", "u1F131", "u1F132", "u1F133", "u1F134", "u1F135",
    "u1F136", "u1F137", "u1F138", "u1F139", "u1F13A", "u1F13B", "u1F13C",
    "u1F13D", "u1F13E", "u1F13F", "u1F140", "u1F141", "u1F142", "u1F143",
    "u1F144", "u1F145", "u1F146", "u1F147", "u1F148", "u1F149", "u1F150",
    "u1F151", "u1F152", "u1F153", "u1F154", "u1F155", "u1F156", "u1F157",
    "u1F158", "u1F159", "u1F15A", "u1F15B", "u1F15C", "u1F15D", "u1F15E",
    "u1F15F", "u1F160", "u1F161", "u1F162", "u1F163", "u1F164", "u1F165",
    "u1F166", "u1F167", "u1F168", "u1F169", "u1F170", "u1F171", "u1F172",
    "u1F173", "u1F174", "u1F175", "u1F176", "u1F177", "u1F178", "u1F179",
    "u1F17A", "u1F17B", "u1F17C", "u1F17D", "u1F17E", "u1F17F", "u1F180",
    "u1F181", "u1F182", "u1F183", "u1F184", "u1F185", "u1F186", "u1F187",
    "u1F188", "u1F189"}

\* the titlecase letters (category Lt): uppercase for istitle(), not for
\* isupper()
TitleChars == {
    "u01C5", "u01C8", "u01CB", "u01F2", "u1F88", "u1F89", "u1F8A", "u1F8B",
    "u1F8C", "u1F8D", "u1F8E", "u1F8F", "u1F98", "u1F99", "u1F9A", "u1F9B",
    "u1F9C", "u1F9D", "u1F9E", "u1F9F", "u1FA8", "u1FA9", "u1FAA", "u1FAB",
    "u1FAC", "u1FAD", "u1FAE", "u1FAF", "u1FBC", "u1FCC", "u1FFC"}

\* the characters c with c.islower()
LowerChars == {
    "a", "b", "c", "d", "e", "f", "g", "h", "i", "j", "k", "l", "m", "n", "o",
    "p", "q", "r", "s", "t", "u", "v", "w", "x", "y", "z", "u00AA", "u00B5",
    "u00BA", "u00DF", "u00E0", "u00E1", "u00E2", "u00E3", "u00E4", "u00E5",
    "u00E6", "u00E7", "u00E8", "u00E9", "u00EA", "u00EB", "u00EC", "u00ED",
    "u00EE", "u00EF", "u00F0", "u00F1", "u00F2", "u00F3", "u00F4", "u00F5",
    "u00F6", "u00F8", "u00F9", "u00FA", "u00FB", "u00FC", "u00FD", "u00FE",
    "u00FF", "u0101", "u0103", "u0105", "u0107", "u0109", "u010B", "u010D",
    "u010F", "u0111", "u0113", "u0115", "u0117", "u0119", "u011B", "u011D",
    "u011F", "u0121", "u0123", "u0125", "u0127", "u0129", "u012B", "u012D",
    "u012F", "u0131", "u0133", "u0135", "u0137", "u0138", "u013A", "u013C",
    "u013E", "u0140", "u0142", "u0144", "u0146", "u0148", "u0149", "u014B",
    "u014D", "u014F", "u0151", "u0153", "u0155", "u0157", "u0159", "u015B",
    "u015D", "u015F", "u0161", "u0163", "u0165", "u0167", "u0169", "u016B",
    "u016D", "u016F", "u0171", "u0173", "u0175", "u0177", "u017A", "u017C",
    "u017E", "u017F", "u0180", "u0183", "u0185", "u0188", "u018C", "u018D",
    "u0192", "u0195", "u0199", "u019A", "u019B", "u019E", "u01A1", "u01A3",
    "u01A5", "u01A8", "u01AA", "u01AB", "u01AD", "u01B0", "u01B4", "u01B6",
    "u01B9", "u01BA", "u01BD", "u01BE", "u01BF", "u01C6", "u01C9", "u01CC",
    "u01CE", "u01D0", "u01D2", "u01D4", "u01D6", "u01D8", "u01DA", "u01DC",
    "u01DD", "u01DF", "u01E1", "u01E3", "u01E5", "u01E7", "u01E9", "u01EB",
    "u01ED", "u01EF", "u01F0", "u01F3", "u01F5", "u01F9", "u01FB", "u01FD",
    "u01FF", "u0201", "u0203", "u0205", "u0207", "u0209", "u020B", "u020D",
    "u020F", "u0211", "u0213", "u0215", "u0217", "u0219", "u021B", "u021D",
    "u021F", "u0221", "u0223", "u0225", "u0227", "u0229", "u022B", "u022D",
    "u022F", "u0231", "u0233", "u0234", "u0235", "u0236", "u0237", "u0238",
    "u0239", "u023C", "u023F", "u0240", "u0242", "u0247", "u0249", "u024B",
    "u024D", "u024F", "u0250", "u0251", "u0252", "u0253", "u0254", "u0255",
    "u0256", "u0257", "u0258", "u0259", "u025A", "u025B", "u025C", "u025D",
    "u025E", "u025F", "u0260", "u0261", "u0262", "u0263", "u0264", "u0265",
    "u0266", "u0267", "u0268", "u0269", "u026A", "u026B", "u026C", "u026D",
    "u026E", "u026F", "u0270", "u0271", "u0272", "u0273", "u0274", "u0275",
    "u0276", "u0277", "u0278", "u0279", "u027A", "u027B", "u027C", "u027D",
    "u027E", "u027F", "u0280", "u0281", "u0282", "u0283", "u0284", "u0285",
    "u0286", "u0287", "u0288", "u0289", "u028A", "u028B", "u028C", "u028D",
    "u028E", "u028F", "u0290", "u0291", "u0292", "u0293", "u0295", "u0296",
    "u0297", "u0298", "u0299", "u029A", "u029B", "u029C", "u029D", "u029E",
    "u029F", "u02A0", "u02A1", "u02A2", "u02A3", "u02A4", "u02A5", "u02A6",
    "u02A7", "u02A8", "u02A9", "u02AA", "u02AB", "u02AC", "u02AD", "u02AE",
    "u02AF", "u02B0", "u02B1", "u02B2", "u02B3", "u02B4", "u02B5", "u02B6",
    "u02B7", "u02B8", "u02C0", "u02C1", "u02E0", "u02E1", "u02E2", "u02E3",
    "u02E4", "u0345", "u0371", "u0373", "u0377", "u037A", "u037B", "u037C",
    "u037D", "u0390", "u03AC", "u03AD", "u03AE", "u03AF", "u03B0", "u03B1",
    "u03B2", "u03B3", "u03B4", "u03B5", "u03B6", "u03B7", "u03B8", "u03B9",
    "u03BA", "u03BB", "u03BC", "u03BD", "u03BE", "u03BF", "u03C0", "u03C1",
    "u03C2", "u03C3", "u03C4", "u03C5", "u03C6", "u03C7", "u03C8", "u03C9",
    "u03CA", "u03CB", "u03CC", "u03CD", "u03CE", "u03D0", "u03D1", "u03D5",
    "u03D6", "u03D7", "u03D9", "u03DB", "u03DD", "u03DF", "u03E1", "u03E3",
    "u03E5", "u03E7", "u03E9", "u03EB", "u03ED", "u03EF", "u03F0", "u03F1",
    "u03F2", "u03F3", "u03F5", "u03F8", "u03FB", "u03FC", "u0430", "u0431",
    "u0432", "u0433", "u0434", "u0435", "u0436", "u0437", "u0438", "u0439",
    "u043A", "u043B", "u043C", "u043D", "u043E", "u043F", "u0440", "u0441",
    "u0442", "u0443", "u0444", "u0445", "u0446", "u0447", "u0448", "u0449",
    "u044A", "u044B", "u044C", "u044D", "u044E", "u044F", "u0450", "u0451",
    "u0452", "u0453", "u0454", "u0455", "u0456", "u0457", "u0458", "u0459",
    "u045A", "u045B", "u045C", "u045D", "u045E", "u045F", "u0461", "u0463",
    "u0465", "u0467", "u0469", "u046B", "u046D", "u046F", "u0471", "u0473",
    "u0475", "u0477", "u0479", "u047B", "u047D", "u047F", "u0481", "u048B",
    "u048D", "u048F", "u0491", "u0493", "u0495", "u0497", "u0499", "u049B",
    "u049D", "u049F", "u04A1", "u04A3", "u04A5", "u04A7", "u04A9", "u04AB",
    "u04AD", "u04AF", "u04B1", "u04B3", "u04B5", "u04B7", "u04B9", "u04BB",
    "u04BD", "u04BF", "u04C2", "u04C4", "u04C6", "u04C8", "u04CA", "u04CC",
    "u04CE", "u04CF", "u04D1", "u04D3", "u04D5", "u04D7", "u04D9", "u04DB",
    "u04DD", "u04DF", "u04E1", "u04E3", "u04E5", "u04E7", "u04E9", "u04EB",
    "u04ED", "u04EF", "u04F1", "u04F3", "u04F5", "u04F7", "u04F9", "u04FB",
    "u04FD", "u04FF", "u0501", "u0503", "u0505", "u0507", "u0509", "u050B",
    "u050D", "u050F", "u0511", "u0513", "u0515", "u0517", "u0519", "u051B",
    "u051D", "u051F", "u0521", "u0523", "u0525", "u0527", "u0529", "u052B",
    "u052D", "u052F", "u0560", "u0561", "u0562", "u0563", "u0564", "u0565",
    "u0566", "u0567", "u0568", "u0569", "u056A", "u056B", "u056C", "u056D",
    "u056E", "u056F", "u0570", "u0571", "u0572", "u0573", "u0574", "u0575",
    "u0576", "u0577", "u0578", "u0579", "u057A", "u057B", "u057C", "u057D",
    "u057E", "u057F", "u0580", "u0581", "u0582", "u0583", "u0584", "u0585",
    "u0586", "u0587", "u0588", "u10D0", "u10D1", "u10D2", "u10D3", "u10D4",
    "u10D5", "u10D6", "u10D7", "u10D8", "u10D9", "u10DA", "u10DB", "u10DC",
    "u10DD", "u10DE", "u10DF", "u10E0", "u10E1", "u10E2", "u10E3", "u10E4",
    "u10E5", "u10E6", "u10E7", "u10E8", "u10E9", "u10EA", "u10EB", "u10EC",
    "u10ED", "u10EE", "u10EF", "u10F0", "u10F1", "u10F2", "u10F3", "u10F4",
    "u10F5", "u10F6", "u10F7", "u10F8", "u10F9", "u10FA", "u10FD", "u10FE",
    "u10FF", "u13F8", "u13F9", "u13FA", "u13FB", "u13FC", "u13FD", "u1C80",
    "u1C81", "u1C82", "u1C83", "u1C84", "u1C85", "u1C86", "u1C87", "u1C88",
    "u1D00", "u1D01", "u1D02", "u1D03", "u1D04", "u1D05", "u1D06", "u1D07",
    "u1D08", "u1D09", "u1D0A", "u1D0B", "u1D0C", "u1D0D", "u1D0E", "u1D0F",
    "u1D10", "u1D11", "u1D12", "u1D13", "u1D14", "u1D15", "u1D16", "u1D17",
    "u1D18", "u1D19", "u1D1A", "u1D1B", "u1D1C", "u1D1D", "u1D1E", "u1D1F",
    "u1D20", "u1D21", "u1D22", "u1D23", "u1D24", "u1D25", "u1D26", "u1D27",
    "u1D28", "u1D29", "u1D2A", "u1D2B", "u1D2C", "u1D2D", "u1D2E", "u1D2F",
    "u1D30", "u1D31", "u1D32", "u1D33", "u1D34", "u1D35", "u1D36", "u1D37",
    "u1D38", "u1D39", "u1D3A", "u1D3B", "u1D3C", "u1D3D", "u1D3E", "u1D3F",
    "u1D40", "u1D41", "u1D42", "u1D43", "u1D44", "u1D45", "u1D46", "u1D47",
    "u1D48", "u1D49", "u1D4A", "u1D4B", "u1D4C", "u1D4D", "u1D4E", "u1D4F",
    "u1D50", "u1D51", "u1D52", "u1D53", "u1D54", "u1D55", "u1D56", "u1D57",
    "u1D58", "u1D59", "u1D5A", "u1D5B", "u1D5C", "u1D5D", "u1D5E", "u1D5F",
    "u1D60", "u1D61", "u1D62", "u1D63", "u1D64", "u1D65", "u1D66", "u1D67",
    "u1D68", "u1D69", "u1D6A", "u1D6B", "u1D6C", "u1D6D", "u1D6E", "u1D6F",
    "u1D70", "u1D71", "u1D72", "u1D73", "u1D74", "u1D75", "u1D76", "u1D77",
    "u1D78", "u1D79", "u1D7A", "u1D7B", "u1D7C", "u1D7D", "u1D7E", "u1D7F",
    "u1D80", "u1D81", "u1D82", "u1D83", "u1D84", "u1D85", "u1D86", "u1D87",
    "u1D88", "u1D89", "u1D8A", "u1D8B", "u1D8C", "u1D8D", "u1D8E", "u1D8F",
    "u1D90", "u1D91", "u1D92", "u1D93", "u1D94", "u1D95", "u1D96", "u1D97",
    "u1D98", "u1D99", "u1D9A", "u1D9B", "u1D9C", "u1D9D", "u1D9E", "u1D9F",
    "u1DA0", "u1DA1", "u1DA2", "u1DA3", "u1DA4", "u1DA5", "u1DA6", "u1DA7",
    "u1DA8", "u1DA9", "u1DAA", "u1DAB", "u1DAC", "u1DAD", "u1DAE", "u1DAF",
    "u1DB0", "u1DB1", "u1DB2", "u1DB3", "u1DB4", "u1DB5", "u1DB6", "u1DB7",
    "u1DB8", "u1DB9", "u1DBA", "u1DBB", "u1DBC", "u1DBD", "u1DBE", "u1DBF",
    "u1E01", "u1E03", "u1E05", "u1E07", "u1E09", "u1E0B", "u1E0D", "u1E0F",
    "u1E11", "u1E13", "u1E15", "u1E17", "u1E19", "u1E1B", "u1E1D", "u1E1F",
    "u1E21", "u1E23", "u1E25", "u1E27", "u1E29", "u1E2B", "u1E2D", "u1E2F",
    "u1E31", "u1E33", "u1E35", "u1E37", "u1E39", "u1E3B", "u1E3D", "u1E3F",
    "u1E41", "u1E43", "u1E45", "u1E47", "u1E49", "u1E4B", "u1E4D", "u1E4F",
    "u1E51", "u1E53", "u1E55", "u1E57", "u1E59", "u1E5B", "u1E5D", "u1E5F",
    "u1E61", "u1E63", "u1E65", "u1E67", "u1E69", "u1E6B", "u1E6D", "u1E6F",
    "u1E71", "u1E73", "u1E75", "u1E77", "u1E79", "u1E7B", "u1E7D", "u1E7F",
    "u1E81", "u1E83", "u1E85", "u1E87", "u1E89", "u1E8B", "u1E8D", "u1E8F",
    "u1E91", "u1E93", "u1E95", "u1E96", "u1E97", "u1E98", "u1E99", "u1E9A",
    "u1E9B", "u1E9C", "u1E9D", "u1E9F", "u1EA1", "u1EA3", "u1EA5", "u1EA7",
    "u1EA9", "u1EAB", "u1EAD", "u1EAF", "u1EB1", "u1EB3", "u1EB5", "u1EB7",
    "u1EB9", "u1EBB", "u1EBD", "u1EBF", "u1EC1", "u1EC3", "u1EC5", "u1EC7",
    "u1EC9", "u1ECB", "u1ECD", "u1ECF", "u1ED1", "u1ED3", "u1ED5", "u1ED7",
    "u1ED9", "u1EDB", "u1EDD", "u1EDF", "u1EE1", "u1EE3", "u1EE5", "u1EE7",
    "u1EE9", "u1EEB", "u1EED", "u1EEF", "u1EF1", "u1EF3", "u1EF5", "u1EF7",
    "u1EF9", "u1EFB", "u1EFD", "u1EFF", "u1F00", "u1F01", "u1F02", "u1F03",
    "u1F04", "u1F05", "u1F06", "u1F07", "u1F10", "u1F11", "u1F12", "u1F13",
    "u1F14", "u1F15", "u1F20", "u1F21", "u1F22", "u1F23", "u1F24", "u1F25",
    "u1F26", "u1F27", "u1F30", "u1F31", "u1F32", "u1F33", "u1F34", "u1F35",
    "u1F36", "u1F37", "u1F40", "u1F41", "u1F42", "u1F43", "u1F44", "u1F45",
    "u1F50", "u1F51", "u1F52", "u1F53", "u1F54", "u1F55", "u1F56", "u1F57",
    "u1F60", "u1F61", "u1F62", "u1F63", "u1F64", "u1F65", "u1F66", "u1F67",
    "u1F70", "u1F71", "u1F72", "u1F73", "u1F74", "u1F75", "u1F76", "u1F77",
    "u1F78", "u1F79", "u1F7A", "u1F7B", "u1F7C", "u1F7D", "u1F80", "u1F81",
    "u1F82", "u1F83", "u1F84", "u1F85", "u1F86", "u1F87", "u1F90", "u1F91",
    "u1F92", "u1F93", "u1F94", "u1F95", "u1F96", "u1F97", "u1FA0", "u1FA1",
    "u1FA2", "u1FA3", "u1FA4", "u1FA5", "u1FA6", "u1FA7", "u1FB0", "u1FB1",
    "u1FB2", "u1FB3", "u1FB4", "u1FB6", "u1FB7", "u1FBE", "u1FC2", "u1FC3",
    "u1FC4", "u1FC6", "u1FC7", "u1FD0", "u1FD1", "u1FD2", "u1FD3", "u1FD6",
    "u1FD7", "u1FE0", "u1FE1", "u1FE2", "u1FE3", "u1FE4", "u1FE5", "u1FE6",
    "u1FE7", "u1FF2", "u1FF3", "u1FF4", "u1FF6", "u1FF7", "u2071", "u207F",
    "u2090", "u2091", "u2092", "u2093", "u2094", "u2095", "u2096", "u2097",
    "u2098", "u2099", "u209A", "u209B", "u209C", "u210A", "u210E", "u210F",
    "u2113", "u212F", "u2134", "u2139", "u213C", "u213D", "u2146", "u2147",
    "u2148", "u2149", "u214E", "u2170", "u2171", "u2172", "u2173", "u2174",
    "u2175", "u2176", "u2177", "u2178", "u2179", "u217A", "u217B", "u217C",
    "u217D", "u217E", "u217F", "u2184", "u24D0", "u24D1", "u24D2", "u24D3",
    "u24D4", "u24D5", "u24D6", "u24D7", "u24D8", "u24D9", "u24DA", "u24DB",
    "u24DC", "u24DD", "u24DE", "u24DF", "u24E0", "u24E1", "u24E2", "u24E3",
    "u24E4", "u24E5", "u24E6", "u24E7", "u24E8", "u24E9", "u2C30", "u2C31",
    "u2C32", "u2C33", "u2C34", "u2C35", "u2C36", "u2C37", "u2C38", "u2C39",
    "u2C3A", "u2C3B", "u2C3C", "u2C3D", "u2C3E", "u2C3F", "u2C40", "u2C41",
    "u2C42", "u2C43", "u2C44", "u2C45", "u2C46", "u2C47", "u2C48", "u2C49",
    "u2C4A", "u2C4B", "u2C4C", "u2C4D", "u2C4E", "u2C4F", "u2C50", "u2C51",
    "u2C52", "u2C53", "u2C54", "u2C55", "u2C56", "u2C57", "u2C58", "u2C59",
    "u2C5A", "u2C5B", "u2C5C", "u2C5D", "u2C5E", "u2C5F", "u2C61", "u2C65",
    "u2C66", "u2C68", "u2C6A", "u2C6C", "u2C71", "u2C73", "u2C74", "u2C76",
    "u2C77", "u2C78", "u2C79", "u2C7A", "u2C7B", "u2C7C", "u2C7D", "u2C81",
    "u2C83", "u2C85", "u2C87", "u2C89", "u2C8B", "u2C8D", "u2C8F", "u2C91",
    "u2C93", "u2C95", "u2C97", "u2C99", "u2C9B", "u2C9D", "u2C9F", "u2CA1",
    "u2CA3", "u2CA5", "u2CA7", "u2CA9", "u2CAB", "u2CAD", "u2CAF", "u2CB1",
    "u2CB3", "u2CB5", "u2CB7", "u2CB9", "u2CBB", "u2CBD", "u2CBF", "u2CC1",
    "u2CC3", "u2CC5", "u2CC7", "u2CC9", "u2CCB", "u2CCD", "u2CCF", "u2CD1",
    "u2CD3", "u2CD5", "u2CD7", "u2CD9", "u2CDB", "u2CDD", "u2CDF", "u2CE1",
    "u2CE3", "u2CE4", "u2CEC", "u2CEE", "u2CF3", "u2D00", "u2D01", "u2D02",
    "u2D03", "u2D04", "u2D05", "u2D06", "u2D07", "u2D08", "u2D09", "u2D0A",
    "u2D0B", "u2D0C", "u2D0D", "u2D0E", "u2D0F", "u2D10", "u2D11", "u2D12",
    "u2D13", "u2D14", "u2D15", "u2D16", "u2D17", "u2D18", "u2D19", "u2D1A",
    "u2D1B", "u2D1C", "u2D1D", "u2D1E", "u2D1F", "u2D20", "u2D21", "u2D22",
    "u2D23", "u2D24", "u2D25", "u2D27", "u2D2D", "uA641", "uA643", "uA645",
    "uA647", "uA649", "uA64B", "uA64D", "uA64F", "uA651", "uA653", "uA655",
    "uA657", "uA659", "uA65B", "uA65D", "uA65F", "uA661", "uA663", "uA665",
    "uA667", "uA669", "uA66B", "uA66D", "uA681", "uA683", "uA685", "uA687",
    "uA689", "uA68B", "uA68D", "uA68F", "uA691", "uA693", "uA695", "uA697",
    "uA699", "uA69B", "uA69C", "uA69D", "uA723", "uA725", "uA727", "uA729",
    "uA72B", "uA72D", "uA72F", "uA730", "uA731", "uA733", "uA735", "uA737",
    "uA739", "uA73B", "uA73D", "uA73F", "uA741", "uA743", "uA745", "uA747",
    "uA749", "uA74B", "uA74D", "uA74F", "uA751", "uA753", "uA755", "uA757",
    "uA759", "uA75B", "uA75D", "uA75F", "uA761", "uA763", "uA765", "uA767",
    "uA769", "uA76B", "uA76D", "uA76F", "uA770", "uA771", "uA772", "uA773",
    "uA774", "uA775", "uA776", "uA777", "uA778", "uA77A", "uA77C", "uA77F",
    "uA781", "uA783", "uA785", "uA787", "uA78C", "uA78E", "uA791", "uA793",
    "uA794", "uA795", "uA797", "uA799", "uA79B", "uA79D", "uA79F", "uA7A1",
    "uA7A3", "uA7A5", "uA7A7", "uA7A9", "uA7AF", "uA7B5", "uA7B7", "uA7B9",
    "uA7BB", "uA7BD", "uA7BF", "uA7C1", "uA7C3", "uA7C8", "uA7CA", "uA7D1",
    "uA7D3", "uA7D5", "uA7D7", "uA7D9", "uA7F6", "uA7F8", "uA7F9", "uA7FA",
    "uAB30", "uAB31", "uAB32", "uAB33", "uAB34", "uAB35", "uAB36", "uAB37",
    "uAB38", "uAB39", "uAB3A", "uAB3B", "uAB3C", "uAB3D", "uAB3E", "uAB3F",
    "uAB40", "uAB41", "uAB42", "uAB43", "uAB44", "uAB45", "uAB46", "uAB47",
    "uAB48", "uAB49", "uAB4A", "uAB4B", "uAB4C", "uAB4D", "uAB4E", "uAB4F",
    "uAB50", "uAB51", "uAB52", "uAB53", "uAB54", "uAB55", "uAB56", "uAB57",
    "uAB58", "uAB59", "uAB5A", "uAB5C", "uAB5D", "uAB5E", "uAB5F", "uAB60",
    "uAB61", "uAB62", "uAB63", "uAB64", "uAB65", "uAB66", "uAB67", "uAB68",
    "uAB70", "uAB71", "uAB72", "uAB73", "uAB74", "uAB75", "uAB76", "uAB77",
    "uAB78", "uAB79", "uAB7A", "uAB7B", "uAB7C", "uAB7D", "uAB7E", "uAB7F",
    "uAB80", "uAB81", "uAB82", "uAB83", "uAB84", "uAB85", "uAB86", "uAB87",
    "uAB88", "uAB89", "uAB8A", "uAB8B", "uAB8C", "uAB8D", "uAB8E", "uAB8F",
    "uAB90", "uAB91", "uAB92", "uAB93", "uAB94", "uAB95", "uAB96", "uAB97",
    "uAB98", "uAB99", "uAB9A", "uAB9B", "uAB9C", "uAB9D", "uAB9E", "uAB9F",
    "uABA0", "uABA1", "uABA2", "uABA3", "uABA4", "uABA5", "uABA6", "uABA7",
    "uABA8", "uABA9", "uABAA", "uABAB", "uABAC", "uABAD", "uABAE", "uABAF",
    "uABB0", "uABB1", "uABB2", "uABB3", "uABB4", "uABB5", "uABB6", "uABB7",
    "uABB8", "uABB9", "uABBA", "uABBB", "uABBC", "uABBD", "uABBE", "uABBF",
    "uFB00", "uFB01", "uFB02", "uFB03", "uFB04", "uFB05", "uFB06", "uFB13",
    "uFB14", "uFB15", "uFB16", "uFB17", "uFF41", "uFF42", "uFF43", "uFF44",
    "uFF45", "uFF46", "uFF47", "uFF48", "uFF49", "uFF4A", "uFF4B", "uFF4C",
    "uFF4D", "uFF4E", "uFF4F", "uFF50", "uFF51", "uFF52", "uFF53", "uFF54",
    "uFF55", "uFF56", "uFF57", "uFF58", "uFF59", "uFF5A", "u10428", "u10429",
    "u1042A", "u1042B", "u1042C", "u1042D", "u1042E", "u1042F", "u10430",
    "u10431", "u10432", "u10433", "u10434", "u10435", "u10436", "u10437",
    "u10438", "u10439", "u1043A", "u1043B", "u1043C", "u1043D", "u1043E",
    "u1043F", "u10440", "u10441", "u10442", "u10443", "u10444", "u10445",
    "u10446", "u10447", "u10448", "u10449", "u1044A", "u1044B", "u1044C",
    "u1044D", "u1044E", "u1044F", "u104D8", "u104D9", "u104DA", "u104DB",
    "u104DC", "u104DD", "u104DE", "u104DF", "u104E0", "u104E1", "u104E2",
    "u104E3", "u104E4", "u104E5", "u104E6", "u104E7", "u104E8", "u104E9",
    "u104EA", "u104EB", "u104EC", "u104ED", "u104EE", "u104EF", "u104F0",
    "u104F1", "u104F2", "u104F3", "u104F4", "u104F5", "u104F6", "u104F7",
    "u104F8", "u104F9", "u104FA", "u104FB", "u10597", "u10598", "u10599",
    "u1059A", "u1059B", "u1059C", "u1059D", "u1059E", "u1059F", "u105A0",
    "u105A1", "u105A3", "u105A4", "u105A5", "u105A6", "u105A7", "u105A8",
    "u105A9", "u105AA", "u105AB", "u105AC", "u105AD", "u105AE", "u105AF",
    "u105B0", "u105B1", "u105B3", "u105B4", "u105B5", "u105B6", "u105B7",
    "u105B8", "u105B9", "u105BB", "u105BC", "u10780", "u10783", "u10784",
    "u10785", "u10787", "u10788", "u10789", "u1078A", "u1078B", "u1078C",
    "u1078D", "u1078E", "u1078F", "u10790", "u10791", "u10792", "u10793",
    "u10794", "u10795", "u10796", "u10797", "u10798", "u10799", "u1079A",
    "u1079B", "u1079C", "u1079D", "u1079E", "u1079F", "u107A0", "u107A1",
    "u107A2", "u107A3", "u107A4", "u107A5", "u107A6", "u107A7", "u107A8",
    "u107A9", "u107AA", "u107AB", "u107AC", "u107AD", "u107AE", "u107AF",
    "u107B0", "u107B2", "u107B3", "u107B4", "u107B5", "u107B6", "u107B7",
    "u107B8", "u107B9", "u107BA", "u10CC0", "u10CC1", "u10CC2", "u10CC3",
    "u10CC4", "u10CC5", "u10CC6", "u10CC7", "u10CC8", "u10CC9", "u10CCA",
    "u10CCB", "u10CCC", "u10CCD", "u10CCE", "u10CCF", "u10CD0", "u10CD1",
    "u10CD2", "u10CD3", "u10CD4", "u10CD5", "u10CD6", "u10CD7", "u10CD8",
    "u10CD9", "u10CDA", "u10CDB", "u10CDC", "u10CDD", "u10CDE", "u10CDF",
    "u10CE0", "u10CE1", "u10CE2", "u10CE3", "u10CE4", "u10CE5", "u10CE6",
    "u10CE7", "u10CE8", "u10CE9", "u10CEA", "u10CEB", "u10CEC", "u10CED",
    "u10CEE", "u10CEF", "u10CF0", "u10CF1", "u10CF2", "u118C0", "u118C1",
    "u118C2", "u118C3", "u118C4", "u118C5", "u118C6", "u118C7", "u118C8",
    "u118C9", "u118CA", "u118CB", "u118CC", "u118CD", "u118CE", "u118CF",
    "u118D0", "u118D1", "u118D2", "u118D3", "u118D4", "u118D5", "u118D6",
    "u118D7", "u118D8", "u118D9", "u118DA", "u118DB", "u118DC", "u118DD",
    "u118DE", "u118DF", "u16E60", "u16E61", "u16E62", "u16E63", "u16E64",
    "u16E65", "u16E66", "u16E67", "u16E68", "u16E69", "u16E6A", "u16E6B",
    "u16E6C", "u16E6D", "u16E6E", "u16E6F", "u16E70", "u16E71", "u16E72",
    "u16E73", "u16E74", "u16E75", "u16E76", "u16E77", "u16E78", "u16E79",
    "u16E7A", "u16E7B", "u16E7C", "u16E7D", "u16E7E", "u16E7F", "u1D41A",
    "u1D41B", "u1D41C", "u1D41D", "u1D41E", "u1D41F", "u1D420", "u1D421",
    "u1D422", "u1D423", "u1D424", "u1D425", "u1D426", "u1D427", "u1D428",
    "u1D429", "u1D42A", "u1D42B", "u1D42C", "u1D42D", "u1D42E", "u1D42F",
    "u1D430", "u1D431", "u1D432", "u1D433", "u1D44E", "u1D44F", "u1D450",
    "u1D451", "u1D452", "u1D453", "u1D454", "u1D456", "u1D457", "u1D458",
    "u1D459", "u1D45A", "u1D45B", "u1D45C", "u1D45D", "u1D45E", "u1D45F",
    "u1D460", "u1D461", "u1D462", "u1D463", "u1D464", "u1D465", "u1D466",
    "u1D467", "u1D482", "u1D483", "u1D484", "u1D485", "u1D486", "u1D487",
    "u1D488", "u1D489", "u1D48A", "u1D48B", "u1D48C", "u1D48D", "u1D48E",
    "u1D48F", "u1D490", "u1D491", "u1D492", "u1D493", "u1D494", "u1D495",
    "u1D496", "u1D497", "u1D498", "u1D499", "u1D49A", "u1D49B", "u1D4B6",
    "u1D4B7", "u1D4B8", "u1D4B9", "u1D4BB", "u1D4BD", "u1D4BE", "u1D4BF",
    "u1D4C0", "u1D4C1", "u1D4C2", "u1D4C3", "u1D4C5", "u1D4C6", "u1D4C7",
    "u1D4C8", "u1D4C9", "u1D4CA", "u1D4CB", "u1D4CC", "u1D4CD", "u1D4CE",
    "u1D4CF", "u1D4EA", "u1D4EB", "u1D4EC", "u1D4ED", "u1D4EE", "u1D4EF",
    "u1D4F0", "u1D4F1", "u1D4F2", "u1D4F3", "u1D4F4", "u1D4F5", "u1D4F6",
    "u1D4F7", "u1D4F8", "u1D4F9", "u1D4FA", "u1D4FB", "u1D4FC", "u1D4FD",
    "u1D4FE", "u1D4FF", "u1D500", "u1D501", "u1D502", "u1D503", "u1D51E",
    "u1D51F", "u1D520", "u1D521", "u1D522", "u1D523", "u1D524", "u1D525",
    "u1D526", "u1D527", "u1D528", "u1D529", "u1D52A", "u1D52B", "u1D52C",
    "u1D52D", "u1D52E", "u1D52F", "u1D530", "u1D531", "u1D532", "u1D533",
    "u1D534", "u1D535", "u1D536", "u1D537", "u1D552", "u1D553", "u1D554",
    "u1D555", "u1D556", "u1D557", "u1D558", "u1D559", "u1D55A", "u1D55B",
    "u1D55C", "u1D55D", "u1D55E", "u1D55F", "u1D560", "u1D561", "u1D562",
    "u1D563", "u1D564", "u1D565", "u1D566", "u1D567", "u1D568", "u1D569",
    "u1D56A", "u1D56B", "u1D586", "u1D587", "u1D588", "u1D589", "u1D58A",
    "u1D58B", "u1D58C", "u1D58D", "u1D58E", "u1D58F", "u1D590", "u1D591",
    "u1D592", "u1D593", "u1D594", "u1D595", "u1D596", "u1D597", "u1D598",
    "u1D599", "u1D59A", "u1D59B", "u1D59C", "u1D59D", "u1D59E", "u1D59F",
    "u1D5BA", "u1D5BB", "u1D5BC", "u1D5BD", "u1D5BE", "u1D5BF", "u1D5C0",
    "u1D5C1", "u1D5C2", "u1D5C3", "u1D5C4", "u1D5C5", "u1D5C6", "u1D5C7",
    "u1D5C8", "u1D5C9", "u1D5CA", "u1D5CB", "u1D5CC", "u1D5CD", "u1D5CE",
    "u1D5CF", "u1D5D0", "u1D5D1", "u1D5D2", "u1D5D3", "u1D5EE", "u1D5EF",
    "u1D5F0", "u1D5F1", "u1D5F2", "u1D5F3", "u1D5F4", "u1D5F5", "u1D5F6",
    "u1D5F7", "u1D5F8", "u1D5F9", "u1D5FA", "u1D5FB", "u1D5FC", "u1D5FD",
    "u1D5FE", "u1D5FF", "u1D600", "u1D601", "u1D602", "u1D603", "u1D604",
    "u1D605", "u1D606", "u1D607", "u1D622", "u1D623", "u1D624", "u1D625",
    "u1D626", "u1D627", "u1D628", "u1D629", "u1D62A", "u1D62B", "u1D62C",
    "u1D62D", "u1D62E", "u1D62F", "u1D630", "u1D631", "u1D632", "u1D633",
    "u1D634", "u1D635", "u1D636", "u1D637", "u1D638", "u1D639", "u1D63A",
    "u1D63B", "u1D656", "u1D657", "u1D658", "u1D659", "u1D65A", "u1D65B",
    "u1D65C", "u1D65D", "u1D65E", "u1D65F", "u1D660", "u1D661", "u1D662",
    "u1D663", "u1D664", "u1D665", "u1D666", "u1D667", "u1D668", "u1D669",
    "u1D66A", "u1D66B", "u1D66C", "u1D66D", "u1D66E", "u1D66F", "u1D68A",
    "u1D68B", "u1D68C", "u1D68D", "u1D68E", "u1D68F", "u1D690", "u1D691",
    "u1D692", "u1D693", "u1D694", "u1D695", "u1D696", "u1D697", "u1D698",
    "u1D699", "u1D69A", "u1D69B", "u1D69C", "u1D69D", "u1D69E", "u1D69F",
    "u1D6A0", "u1D6A1", "u1D6A2", "u1D6A3", "u1D6A4", "u1D6A5", "u1D6C2",
    "u1D6C3", "u1D6C4", "u1D6C5", "u1D6C6", "u1D6C7", "u1D6C8", "u1D6C9",
    "u1D6CA", "u1D6CB", "u1D6CC", "u1D6CD", "u1D6CE", "u1D6CF", "u1D6D0",
    "u1D6D1", "u1D6D2", "u1D6D3", "u1D6D4", "u1D6D5", "u1D6D6", "u1D6D7",
    "u1D6D8", "u1D6D9", "u1D6DA", "u1D6DC", "u1D6DD", "u1D6DE", "u1D6DF",
    "u1D6E0", "u1D6E1", "u1D6FC", "u1D6FD", "u1D6FE", "u1D6FF", "u1D700",
    "u1D701", "u1D702", "u1D703", "u1D704", "u1D705", "u1D706", "u1D707",
    "u1D708", "u1D709", "u1D70A", "u1D70B", "u1D70C", "u1D70D", "u1D70E",
    "u1D70F", "u1D710", "u1D711", "u1D712", "u1D713", "u1D714", "u1D716",
    "u1D717", "u1D718", "u1D719", "u1D71A", "u1D71B", "u1D736", "u1D737",
    "u1D738", "u1D739", "u1D73A", "u1D73B", "u1D73C", "u1D73D", "u1D73E",
    "u1D73F", "u1D740", "u1D741", "u1D742", "u1D743", "u1D744", "u1D745",
    "u1D746", "u1D747", "u1D748", "u1D749", "u1D74A", "u1D74B", "u1D74C",
    "u1D74D", "u1D74E", "u1D750", "u1D751", "u1D752", "u1D753", "u1D754",
    "u1D755", "u1D770", "u1D771", "u1D772", "u1D773", "u1D774", "u1D775",
    "u1D776", "u1D777", "u1D778", "u1D779", "u1D77A", "u1D77B", "u1D77C",
    "u1D77D", "u1D77E", "u1D77F", "u1D780", "u1D781", "u1D782", "u1D783",
    "u1D784", "u1D785", "u1D786", "u1D787", "u1D788", "u1D78A", "u1D78B",
    "u1D78C", "u1D78D", "u1D78E", "u1D78F", "u1D7AA", "u1D7AB", "u1D7AC",
    "u1D7AD", "u1D7AE", "u1D7AF", "u1D7B0", "u1D7B1", "u1D7B2", "u1D7B3",
    "u1D7B4", "u1D7B5", "u1D7B6", "u1D7B7", "u1D7B8", "u1D7B9", "u1D7BA",
    "u1D7BB", "u1D7BC", "u1D7BD", "u1D7BE", "u1D7BF", "u1D7C0", "u1D7C1",
    "u1D7C2", "u1D7C4", "u1D7C5", "u1D7C6", "u1D7C7", "u1D7C8", "u1D7C9",
    "u1D7CB", "u1DF00", "u1DF01", "u1DF02", "u1DF03", "u1DF04", "u1DF05",
    "u1DF06", "u1DF07", "u1DF08", "u1DF09", "u1DF0B", "u1DF0C", "u1DF0D",
    "u1DF0E", "u1DF0F", "u1DF10", "u1DF11", "u1DF12", "u1DF13", "u1DF14",
    "u1DF15", "u1DF16", "u1DF17", "u1DF18", "u1DF19", "u1DF1A", "u1DF1B",
    "u1DF1C", "u1DF1D", "u1DF1E", "u1E922", "u1E923", "u1E924", "u1E925",
    "u1E926", "u1E927", "u1E928", "u1E929", "u1E92A", "u1E92B", "u1E92C",
    "u1E92D", "u1E92E", "u1E92F", "u1E930", "u1E931", "u1E932", "u1E933",
    "u1E934", "u1E935", "u1E936", "u1E937", "u1E938", "u1E939", "u1E93A",
    "u1E93B", "u1E93C", "u1E93D", "u1E93E", "u1E93F", "u1E940", "u1E941",
    "u1E942", "u1E943"}

Cased(c) == c \in UpperChars \/ c \in TitleChars \/ c \in LowerChars

SetMin(S) == CHOOSE x \in S : \A y \in S : x <= y

SetMax(S) == CHOOSE x \in S : \A y \in S : y <= x

\* str.strip()
Strip(s) ==
    LET keep == {i \in 1..Len(s) : s[i] \notin Whitespace}
    IN  IF keep = {} THEN <<>> ELSE SubSeq(s, SetMin(keep), SetMax(keep))

\* s[:n]
Prefix(s, n) == SubSeq(s, 1, IF Len(s) < n THEN Len(s) ELSE n)

\* str.startswith(k)
StartsWith(s, k) == Len(k) <= Len(s) /\ SubSeq(s, 1, Len(k)) = k

\* str.endswith(k)
EndsWith(s, k) == Len(k) <= Len(s) /\ SubSeq(s, Len(s) - Len(k) + 1, Len(s)) = k

\* str.replace(c, '')
Remove(s, c) == SelectSeq(s, LAMBDA x : x # c)

\* c in s
HasChar(s, c) == \E i \in 1..Len(s) : s[i] = c

\* str.isdigit()
IsDigit(s) == Len(s) > 0 /\ \A i \in 1..Len(s) : s[i] \in Digits

\* str.isupper(): some uppercase character, no lowercase or titlecase one
IsUpper(s) ==
    /\ \E i \in 1..Len(s) : s[i] \in UpperChars
    /\ \A i \in 1..Len(s) : s[i] \notin LowerChars /\ s[i] \notin TitleChars

\* str.istitle(): uppercase and titlecase only after uncased, lowercase only
\* after cased
IsTitle(s) ==
    /\ \E i \in 1..Len(s) : Cased(s[i])
    /\ \A i \in 1..Len(s) :
         IF s[i] \in UpperChars \/ s[i] \in TitleChars
         THEN i = 1 \/ ~Cased(s[i-1])
         ELSE s[i] \in LowerChars => (i > 1 /\ Cased(s[i-1]))

\* len(s.split())
WordCount(s) ==
    Cardinality({i \in 1..Len(s) :
        s[i] \notin Whitespace /\ (i = 1 \/ s[i-1] \in Whitespace)})

\* font_name.lower().find('bold') != -1.  lower() maps every character to
\* one or more characters, and yields b, o, l or d from these letters and
\* from B, O, L, D only, so the lowered name holds "bold" exactly where the
\* name holds these four letters in a row, in either case.
LowerFindBold(font_name) ==
    \E i \in 1..(Len(font_name) - 3) :
        /\ font_name[i] \in {"b", "B"}
        /\ font_name[i + 1] \in {"o", "O"}
        /\ font_name[i + 2] \in {"l", "L"}
        /\ font_name[i + 3] \in {"d", "D"}

(***************************************************************************)
(* HeadingExtractor.__init__: the keyword table                             *)
(***************************************************************************)
Patterns_en ==
    {<<"C","h","a","p","t","e","r">>,
     <<"S","e","c","t","i","o","n">>,
     <<"P","a","r","t">>,
     <<"O","v","e","r","v","i","e","w">>,
     <<"S","u","m","m","a","r","y">>,
     <<"C","o","n","c","l","u","s","i","o","n">>,
     <<"A","p","p","e","n","d","i","x">>}

Patterns_es ==
    {<<"C","a","p","u00ED","t","u","l","o">>,
     <<"S","e","c","c","i","u00F3","n">>,
     <<"P","a","r","t","e">>,
     <<"R","e","s","u","m","e","n">>,
     <<"C","o","n","c","l","u","s","i","u00F3","n">>,
     <<"A","p","u00E9","n","d","i","c","e">>}

Patterns_fr ==
    {<<"C","h","a","p","i","t","r","e">>,
     <<"S","e","c","t","i","o","n">>,
     <<"P","a","r","t","i","e">>,
     <<"A","p","e","r","u00E7","u">>,
     <<"R","u00E9","s","u","m","u00E9">>,
     <<"C","o","n","c","l","u","s","i","o","n">>,
     <<"A","n","n","e","x","e">>}

Patterns_de ==
    {<<"K","a","p","i","t","e","l">>,
     <<"A","b","s","c","h","n","i","t","t">>,
     <<"T","e","i","l">>,
     <<"u00DC","b","e","r","b","l","i","c","k">>,
     <<"Z","u","s","a","m","m","e","n","f","a","s","s","u","n","g">>,
     <<"F","a","z","i","t">>,
     <<"A","n","h","a","n","g">>}

Patterns_zh ==
    {<<"u7AE0">>,
     <<"u8282">>,
     <<"u90E8","u5206">>,
     <<"u6982","u8FF0">>,
     <<"u6458","u8981">>,
     <<"u7ED3","u8BBA">>,
     <<"u9644","u5F55">>}

Patterns_ja ==
    {<<"u7AE0">>,
     <<"u7BC0">>,
     <<"u90E8">>,
     <<"u6982","u8981">>,
     <<"u8981","u7D04">>,
     <<"u7D50","u8AD6">>,
     <<"u4ED8","u9332">>}

Patterns_ko ==
    {<<"uC7A5">>,
     <<"uC808">>,
     <<"uBD80","uBD84">>,
     <<"uAC1C","uC694">>,
     <<"uC694","uC57D">>,
     <<"uACB0","uB860">>,
     <<"uBD80","uB85D">>}

heading_patterns ==
    Patterns_en \cup Patterns_es \cup Patterns_fr \cup Patterns_de
        \cup Patterns_zh \cup Patterns_ja \cup Patterns_ko

Untitled == <<"U","n","t","i","t","l","e","d">>

\* the longest line _is_heading and extract_headings let through
MaxLineLen == 100

(***************************************************************************)
(* Integers of any length: the digits in base 2^15, lowest first, without   *)
(* leading zeros                                                            *)
(***************************************************************************)
Base == 2^15

RECURSIVE BFromInt(_)
BFromInt(n) == IF n = 0 THEN <<>> ELSE <<n % Base>> \o BFromInt(n \div Base)

RECURSIVE BToInt(_)
BToInt(a) == IF a = <<>> THEN 0 ELSE a[1] + Base * BToInt(Tail(a))

RECURSIVE BTrim(_)
BTrim(a) ==
    IF a # <<>> /\ a[Len(a)] = 0 THEN BTrim(SubSeq(a, 1, Len(a) - 1)) ELSE a

RECURSIVE IntBits(_)
IntBits(n) == IF n = 0 THEN 0 ELSE 1 + IntBits(n \div 2)

BBits(a) == IF a = <<>> THEN 0 ELSE 15 * (Len(a) - 1) + IntBits(a[Len(a)])

BOdd(a) == a # <<>> /\ a[1] % 2 = 1

RECURSIVE BAddC(_, _, _)
BAddC(a, b, c) ==
    IF a = <<>> /\ b = <<>> THEN (IF c = 0 THEN <<>> ELSE <<c>>)
    ELSE LET x == (IF a = <<>> THEN 0 ELSE a[1])
                  + (IF b = <<>> THEN 0 ELSE b[1]) + c
         IN  <<x % Base>> \o BAddC(IF a = <<>> THEN <<>> ELSE Tail(a),
                                   IF b = <<>> THEN <<>> ELSE Tail(b),
                                   x \div Base)

BAdd(a, b) == BAddC(a, b, 0)

\* a - b - c for a >= b + c
RECURSIVE BSubC(_, _, _)
BSubC(a, b, c) ==
    IF a = <<>> THEN <<>>
    ELSE LET x == a[1] - (IF b = <<>> THEN 0 ELSE b[1]) - c
         IN  <<x % Base>> \o BSubC(Tail(a),
                                   IF b = <<>> THEN <<>> ELSE Tail(b),
                                   IF x < 0 THEN 1 ELSE 0)

BSub(a, b) == BTrim(BSubC(a, b, 0))

RECURSIVE BMulC(_, _, _)
BMulC(a, m, c) ==
    IF a = <<>> THEN BFromInt(c)
    ELSE LET x == a[1] * m + c
         IN  <<x % Base>> \o BMulC(Tail(a), m, x \div Base)

\* a * m for 0 <= m < Base
BMulSmall(a, m) == BTrim(BMulC(a, m, 0))

RECURSIVE BMul(_, _)
BMul(a, b) ==
    IF a = <<>> \/ b = <<>> THEN <<>>
    ELSE LET r == BMul(a, Tail(b))
         IN  BAdd(BMulSmall(a, b[1]), IF r = <<>> THEN <<>> ELSE <<0>> \o r)

\* quotient and remainder of a by d, 0 < d < Base
RECURSIVE BDiv(_, _)
BDiv(a, d) ==
    IF a = <<>> THEN [q |-> <<>>, r |-> 0]
    ELSE LET hi == BDiv(Tail(a), d)
             x == hi.r * Base + a[1]
         IN  [q |-> IF hi.q = <<>> /\ x < d THEN <<>>
                    ELSE <<x \div d>> \o hi.q,
              r |-> x % d]

\* a * 2^n
BShl(a, n) ==
    IF a = <<>> THEN <<>>
    ELSE [i \in 1..(n \div 15) |-> 0] \o BMulSmall(a, 2^(n % 15))

\* a \div 2^n, and whether a bit was lost
Shifted(d, low) == [q |-> d.q, sticky |-> d.r # 0 \/ low]

BShr(a, n) ==
    IF n \div 15 >= Len(a) THEN [q |-> <<>>, sticky |-> a # <<>>]
    ELSE Shifted(BDiv(SubSeq(a, n \div 15 + 1, Len(a)), 2^(n % 15)),
                 \E i \in 1..(n \div 15) : a[i] # 0)

\* -1, 0, 1 as a < b, a = b, a > b
RECURSIVE BCmp(_, _)
BCmp(a, b) ==
    IF Len(a) # Len(b) THEN (IF Len(a) < Len(b) THEN -1 ELSE 1)
    ELSE IF a = <<>> THEN 0
    ELSE IF a[Len(a)] # b[Len(b)]
         THEN (IF a[Len(a)] < b[Len(b)] THEN -1 ELSE 1)
    ELSE BCmp(BTrim(SubSeq(a, 1, Len(a) - 1)), BTrim(SubSeq(b, 1, Len(b) - 1)))

(***************************************************************************)
(* Doubles: sign * m * 2^e with 2^52 <= m < 2^53, or m = 0.  Every result   *)
(* is the exact value rounded to nearest, ties to the even m.               *)
(***************************************************************************)
FZero == [sign |-> 1, m |-> <<>>, e |-> 0]

\* m * 2^e with m < 2^54 brought to m < 2^53
Normal(sign, m, e) ==
    IF BBits(m) = 54 THEN [sign |-> sign, m |-> BDiv(m, 2).q, e |-> e + 1]
    ELSE [sign |-> sign, m |-> m, e |-> e]

\* m, or m + 1 when the dropped bits are more than half a unit of m, or are
\* half a unit and m is odd
HalfEven(sign, m, e, half, rest) ==
    Normal(sign,
           IF half /\ (rest \/ BOdd(m)) THEN BAdd(m, <<1>>) ELSE m,
           e)

\* sh is 2 * m + half, with the rest below
Halved(sign, sh, e, rest) ==
    HalfEven(sign, BDiv(sh.q, 2).q, e, BOdd(sh.q), sh.sticky \/ rest)

\* q has at least 55 bits: 53 of them are kept
Kept(sign, q, drop, s, rest) ==
    Halved(sign, BShr(q, drop - 1), s + drop, rest)

Quotient(sign, dv, s) ==
    Kept(sign, dv.q, BBits(dv.q) - 53, s, dv.r # 0)

Scaled(sign, n, d, s, k) == Quotient(sign, BDiv(BShl(n, k), d), s - k)

Positive(k) == IF k > 0 THEN k ELSE 0

\* the double nearest to sign * (n / d) * 2^s, for 0 < d < Base
RoundRatio(sign, n, d, s) ==
    IF n = <<>> THEN FZero
    ELSE Scaled(sign, n, d, s, Positive(55 + IntBits(d) - BBits(n)))

\* the double nearest to n / d: float("n/d") of a decimal literal
Dec(n, d) ==
    RoundRatio(IF n < 0 THEN -1 ELSE 1, BFromInt(IF n < 0 THEN -n ELSE n),
               d, 0)

\* the double of a size in tenths
Double(size) == Dec(size, 10)

\* sign_a * a * 2^e + sign_b * b * 2^e
Added(sign_a, a, sign_b, b, e) ==
    RoundRatio(IF sign_a = sign_b \/ BCmp(a, b) >= 0 THEN sign_a ELSE sign_b,
               IF sign_a = sign_b THEN BAdd(a, b)
               ELSE IF BCmp(a, b) >= 0 THEN BSub(a, b)
               ELSE BSub(b, a),
               1, e)

Aligned(x, y, e) ==
    Added(x.sign, BShl(x.m, x.e - e), y.sign, BShl(y.m, y.e - e), e)

\* x + y
FAdd(x, y) ==
    IF x.m = <<>> THEN y
    ELSE IF y.m = <<>> THEN x
    ELSE Aligned(x, y, IF x.e < y.e THEN x.e ELSE y.e)

\* x * y
FMul(x, y) == RoundRatio(x.sign * y.sign, BMul(x.m, y.m), 1, x.e + y.e)

\* x / n for an integer 0 < n < Base
FDivInt(x, n) == RoundRatio(x.sign, x.m, n, x.e)

GeAligned(x, y, e) ==
    IF x.sign = 1 THEN BCmp(BShl(x.m, x.e - e), BShl(y.m, y.e - e)) >= 0
    ELSE BCmp(BShl(y.m, y.e - e), BShl(x.m, x.e - e)) >= 0

\* x >= y
FGe(x, y) ==
    IF x.m = <<>> THEN y.m = <<>> \/ y.sign = -1
    ELSE IF y.m = <<>> THEN x.sign = 1
    ELSE IF x.sign # y.sign THEN x.sign = 1
    ELSE GeAligned(x, y, IF x.e < y.e THEN x.e ELSE y.e)

\* size >= f for a size in tenths
Ge(size, f) == FGe(Double(size), f)

(***************************************************************************)
(* round(float(x), 1) of the raw value x = h/100: the double nearest to     *)
(* h/100, rounded to the nearest tenth, a tie of that double going to the   *)
(* even tenth.  The result in tenths.                                       *)
(***************************************************************************)
Nearest(twice, whole) ==
    IF BOdd(twice.q) /\ (twice.sticky \/ whole % 2 = 1) THEN whole + 1
    ELSE whole

\* twice is 20 * x cut to an integer
Tenths(twice) == Nearest(twice, BToInt(BDiv(twice.q, 2).q))

TenthsOf(x) ==
    IF x.m = <<>> THEN 0
    ELSE Tenths(BShr(BMulSmall(x.m, 10), -x.e - 1))

Round1(h) ==
    (IF h < 0 THEN -1 ELSE 1) * TenthsOf(Dec(IF h < 0 THEN -h ELSE h, 100))

\* Sizes (in tenths) for which the levels are compared with exact arithmetic.
MaxSize == 300

(***************************************************************************)
(* self.size_thresholds: a dict from size to count; here the sequence of    *)
(* its items in insertion order, the order in which a dict is iterated      *)
(***************************************************************************)
NoSizes == <<>>

Keys(st) == {st[i].size : i \in 1..Len(st)}

RecordAny(st, size) ==
    IF size \in Keys(st)
    THEN [i \in 1..Len(st) |->
             IF st[i].size = size THEN [st[i] EXCEPT !.count = @ + 1]
             ELSE st[i]]
    ELSE Append(st, [size |-> size, count |-> 1])

\* a plausible slip: the size is recorded whatever its sign
RecordSizeUnguarded(st, font_size) == RecordAny(st, font_size)

\* _is_heading, "Update size thresholds": font_size is already rounded
RecordSize(st, font_size) ==
    IF font_size > 0 THEN RecordAny(st, font_size) ELSE st

\* the pre-pass: the raw size is tested, the rounded size is the key
RecordRaw(st, raw) ==
    IF raw > 0 THEN RecordAny(st, Round1(raw)) ELSE st

\* sum(sizes) over the first n keys: 0 + k1 + k2 + ..., each sum rounded
RECURSIVE SumKeys(_, _)
SumKeys(st, n) ==
    IF n = 0 THEN FZero
    ELSE FAdd(SumKeys(st, n - 1), Double(st[n].size))

get_average_font_size(st) ==
    IF st = <<>> THEN Double(120)
    ELSE FDivInt(SumKeys(st, Len(st)), Len(st))

\* sorted(keys, reverse=True)[0]
Largest(st) == SetMax(Keys(st))

\* a plausible slip: sorted() without reverse=True, so the smallest size
determine_level_ascending(st, size) ==
    IF st = <<>> THEN "H3"
    ELSE LET largest == SetMin(Keys(st))
         IN  IF 10 * size >= 9 * largest THEN "H1"
             ELSE IF 10 * size >= 8 * largest THEN "H2"
             ELSE "H3"

Level(size, threshold_h1, threshold_h2) ==
    IF Ge(size, threshold_h1) THEN "H1"
    ELSE IF Ge(size, threshold_h2) THEN "H2"
    ELSE "H3"

Thresholds(size, largest) ==
    Level(size, FMul(largest, Dec(9, 10)), FMul(largest, Dec(8, 10)))

determine_level(st, size) ==
    IF st = <<>> THEN "H3" ELSE Thresholds(size, Double(Largest(st)))

get_title_threshold(st) ==
    IF st = <<>> THEN Double(180)
    ELSE FMul(Double(Largest(st)), Dec(95, 100))

(***************************************************************************)
(* _is_heading: its result, given self.size_thresholds before the call      *)
(***************************************************************************)
Rules(line, font_size, font_name, st) ==
    LET sizes == RecordSize(st, font_size)
    IN  IF \E k \in heading_patterns : StartsWith(line, k) THEN TRUE
        ELSE IF IsDigit(Remove(Strip(Prefix(line, 6)), "."))
                /\ HasChar(Prefix(line, 6), ".") THEN TRUE
        ELSE IF IsUpper(line) /\ WordCount(line) <= 6 THEN TRUE
        ELSE IF IsTitle(line) /\ WordCount(line) <= 8 THEN TRUE
        ELSE IF WordCount(line) <= 5
                /\ Ge(font_size, get_average_font_size(sizes)) THEN TRUE
        ELSE IF LowerFindBold(font_name) /\ WordCount(line) <= 8
             THEN TRUE
        ELSE IF HasChar(line, ":") /\ ~EndsWith(line, <<".">>) THEN FALSE
        ELSE FALSE

\* a plausible slip: no length gate in _is_heading
is_heading_ungated(line, font_size, font_name, st) ==
    Rules(line, font_size, font_name, st)

is_heading(line, font_size, font_name, st) ==
    IF line = <<>> \/ Len(line) > MaxLineLen THEN FALSE
    ELSE Rules(line, font_size, font_name, st)

\* self.size_thresholds after _is_heading(line, font_size, ...)
is_heading_sizes(line, font_size, st) ==
    IF line = <<>> \/ Len(line) > MaxLineLen THEN st
    ELSE RecordSize(st, font_size)

(***************************************************************************)
(* Documents.  A character record is what page.chars yields: its text, raw  *)
(* size, font name and raw top.  A page is a sequence of them, a document a *)
(* sequence of pages (named by their number in Pages), and the input        *)
(* directory a sequence of documents.                                       *)
(***************************************************************************)
Ch(t, s, f, y) == [text |-> t, size |-> s, fontname |-> f, top |-> y]

Rep(c, n) == [i \in 1..n |-> c]

Bold == <<"H","e","l","v","e","t","i","c","a","-","B","o","l","d">>

Regular == <<"H","e","l","v","e","t","i","c","a">>

Pages == <<
    \* 1: a title, a section heading and a body line
    << Ch(<<"A","N","N","U","A","L"," ","R","E","P","O","R","T">>, 2400, Bold, 1000),
       Ch(<<"I","n","t","r","o","d","u","c","t","i","o","n">>, 1600, Bold, 2000),
       Ch(<<"T","h","i","s"," ","i","s"," ","b","o","d","y"," ","t","e","x","t"," ","e","x","p","l","a","i","n","i","n","g"," ","t","h","i","n","g","s",".">>, 1000, Regular, 3000) >>,
    \* 2: a heading whose text is the default title
    << Ch(<<"U","n","t","i","t","l","e","d">>, 2400, Regular, 1000),
       Ch(<<"C","h","a","p","t","e","r"," ","O","n","e">>, 2400, Regular, 2000) >>,
    \* 3: a small heading first, tops out of vertical order
    << Ch(<<"S","u","m","m","a","r","y">>, 1000, Regular, 5000),
       Ch(<<"P","A","R","T"," ","O","N","E">>, 2300, Regular, 1000),
       Ch(<<"1",".","1">>, 2400, <<>>, 2000) >>,
    \* 4: sizes that are tiny, negative and zero
    << Ch(<<"1",".">>, 4, <<>>, 1000),
       Ch(<<"n","o","t","e","s"," ","o","n"," ","m","e","t","h","o","d">>, -100, Bold, 2000),
       Ch(<<"x",":"," ","y">>, 0, Regular, 3000) >>,
    \* 5: lines of 101, 100 and 0 characters
    << Ch(<<"C","h","a","p","t","e","r"," ">> \o Rep("x", 93), 2400, Bold, 1000),
       Ch(Rep("A", 100), 1200, Regular, 2000),
       Ch(<<" "," "," ">>, 1200, Regular, 3000) >>,
    \* 6: fragments of one line around another line
    << Ch(<<"S","e","c">>, 1200, <<"A","r","i","a","l","-","B","o","l","d","M","T">>, 1002),
       Ch(<<"t","o","t","a","l",":"," ","1","2">>, 1000, Regular, 2000),
       Ch(<<"t","i","o","n"," ","2"," ">>, 900, Regular, 1004) >>,
    \* 7: a size at 0.9 of the largest
    << Ch(<<"T","O","T","A","L">>, 1300, Regular, 1000),
       Ch(<<"R","e","s","u","l","t","s">>, 1170, Regular, 2000),
       Ch(<<"a","n","d"," ","s","o"," ","o","n"," ","i","t"," ","g","o","e","s"," ","h","e","r","e",".">>, 1040, Regular, 3000) >>,
    \* 8: a size at 0.8 of the largest
    << Ch(<<"N","O","T","E">>, 300, Regular, 1000),
       Ch(<<"D","a","t","a">>, 240, Bold, 2000) >>,
    \* 9: sizes 20, 19, 16.5 and 10
    << Ch(<<"A","p","p","e","n","d","i","x">>, 2000, Regular, 1000),
       Ch(<<"K","a","p","i","t","e","l"," ","2">>, 1900, Regular, 2000),
       Ch(<<"u7AE0">>, 1650, Regular, 3000),
       Ch(<<"s","m","a","l","l"," ","w","o","r","d","s"," ","h","e","r","e">>, 1000, Regular, 4000) >>,
    \* 10: a long title-case line, then a short line at the average size
    << Ch(<<"A"," ","T","a","l","e"," ","O","f"," ","T","w","o"," ","C","i","t","i","e","s"," ","A","n","d"," ","M","a","n","y"," ","M","o","r","e"," ","W","o","r","d","s"," ","H","e","r","e">>, 1400, Regular,
          1000),
       Ch(<<"o","v","e","r","v","i","e","w">>, 1400, Regular, 2000) >>,
    \* 11: a page without characters
    << >>,
    \* 12: tops 10.00 and 10.05, and a short line at the middle one of the
    \* sizes 6.0, 6.1 and 6.2
    << Ch(<<"a","l","p","h","a"," ","b","e","t","a">>, 600, Regular, 1000),
       Ch(<<"f","o","o"," ","b","a","r">>, 610, Regular, 1005),
       Ch(<<"g","a","m","m","a"," ","d","e","l","t","a",".">>, 620, Regular, 2000) >>,
    \* 13: letters and spaces outside ASCII, raw sizes 0.05 and 0.15
    << Ch(<<"u00C9","c","o","l","e">>, 2400, Regular, 1025),
       Ch(<<"S","T","R","A","S","S","E"," ","u00DF">>, 1000, Regular, 2000),
       Ch(<<"u00A0">> \o <<"N","o","t","e","s">> \o <<"u000B">>, 5, Regular, 3000),
       Ch(<<"u01C5"," ","x">>, 15, Regular, 3035) >>
>>

PageIds == 1..Len(Pages)

\* the most pages of a document
MaxPages == 2

\* the most documents of an input directory
MaxFiles == 3

Docs == UNION {[1..n -> PageIds] : n \in 0..MaxPages}

\* the documents of the directories that hold several
BatchDocs == {<<1>>, <<3>>, <<4>>, <<8>>}

Listings ==
    {<<d>> : d \in Docs}
        \cup UNION {[1..n -> BatchDocs] : n \in 2..MaxFiles}

\* pdf.pages of the document being read, and page.chars
Doc == files[file_idx]

NPages == Len(Doc)

Chars(p) == Pages[Doc[p]]

(***************************************************************************)
(* extract_headings, second pass: grouping the characters of a page         *)
(***************************************************************************)
Entry(top_key, font_size, font_name, page) ==
    [top |-> top_key, text |-> <<>>, size |-> font_size,
     font |-> font_name, page |-> page]

HasKey(lines, top_key) == \E i \in 1..Len(lines) : lines[i].top = top_key

\* a plausible slip: the lines kept in vertical order
AddCharSorted(lines, char, page) ==
    LET top_key == Round1(char.top)
        e == Entry(top_key, Round1(char.size), char.fontname, page)
        before == SelectSeq(lines, LAMBDA l : l.top < top_key)
        after == SelectSeq(lines, LAMBDA l : l.top >= top_key)
        with == IF HasKey(lines, top_key) THEN lines
                ELSE before \o <<e>> \o after
    IN  [i \in 1..Len(with) |->
            IF with[i].top = top_key
            THEN [with[i] EXCEPT !.text = @ \o Strip(char.text)]
            ELSE with[i]]

\* lines_by_font after one character: a dict, so in insertion order
AddChar(lines, char, page) ==
    LET top_key == Round1(char.top)
        e == Entry(top_key, Round1(char.size), char.fontname, page)
        with == IF HasKey(lines, top_key) THEN lines ELSE Append(lines, e)
    IN  [i \in 1..Len(with) |->
            IF with[i].top = top_key
            THEN [with[i] EXCEPT !.text = @ \o Strip(char.text)]
            ELSE with[i]]

(***************************************************************************)
(* extract_headings: what one classified line does to title and headings    *)
(***************************************************************************)
Heading(line, page, level) == [text |-> line, page |-> page, level |-> level]

\* a plausible slip: the title taken from a line that is no heading
NextTitleAnyLine(t, line, size, st, accepted) ==
    IF t = Untitled /\ Ge(size, get_title_threshold(st)) THEN line ELSE t

NextTitle(t, line, size, st, accepted) ==
    IF accepted /\ t = Untitled /\ Ge(size, get_title_threshold(st))
    THEN line ELSE t

NextHeadings(hs, line, page, level, accepted) ==
    IF accepted THEN Append(hs, Heading(line, page, level)) ELSE hs

\* a plausible slip: the previous document's sizes kept
ResetSizesKept(st) == st

\* self.size_thresholds = {}
ResetSizes(st) == NoSizes

\* a plausible slip: what was gathered so far returned on an exception
ExceptResultPartial(t, hs) == [title |-> t, outline |-> hs]

\* return "Untitled", []
ExceptResult(t, hs) == [title |-> Untitled, outline |-> <<>>]

\* return title, self.headings
ReturnResult(t, hs) == [title |-> t, outline |-> hs]

(***************************************************************************)
(* State                                                                    *)
(***************************************************************************)
Init ==
    /\ files \in Listings
    /\ file_idx = 0
    /\ pc = "idle"
    /\ page_num = 0
    /\ char_idx = 0
    /\ lines_by_font = <<>>
    /\ line_idx = 0
    /\ headings = <<>>
    /\ size_thresholds = NoSizes
    /\ title = Untitled
    /\ result = ReturnResult(Untitled, <<>>)
    /\ results = <<>>
    /\ processed_files = <<>>
    /\ outputs = <<>>

driver_vars == <<files, result, results, processed_files, outputs>>

\* process_pdfs takes the next file and calls extract_headings, which resets
Call ==
    /\ pc = "idle"
    /\ file_idx < Len(files)
    /\ file_idx' = file_idx + 1
    /\ headings' = <<>>
    /\ size_thresholds' = ResetSizes(size_thresholds)
    /\ title' = Untitled
    /\ pc' = "open"
    /\ UNCHANGED <<page_num, char_idx, lines_by_font, line_idx, driver_vars>>

\* pdfplumber.open succeeds; the first pass starts
Open ==
    /\ pc = "open"
    /\ pc' = "prepass"
    /\ page_num' = 0
    /\ char_idx' = 0
    /\ UNCHANGED <<file_idx, lines_by_font, line_idx, headings,
                   size_thresholds, title, driver_vars>>

\* first pass, one character
PrepassChar ==
    /\ pc = "prepass"
    /\ page_num < NPages
    /\ char_idx < Len(Chars(page_num + 1))
    /\ size_thresholds' =
           RecordRaw(size_thresholds, Chars(page_num + 1)[char_idx + 1].size)
    /\ char_idx' = char_idx + 1
    /\ UNCHANGED <<file_idx, pc, page_num, lines_by_font, line_idx, headings,
                   title, driver_vars>>

\* first pass, the characters of a page are exhausted
PrepassNextPage ==
    /\ pc = "prepass"
    /\ page_num < NPages
    /\ char_idx = Len(Chars(page_num + 1))
    /\ page_num' = page_num + 1
    /\ char_idx' = 0
    /\ UNCHANGED <<file_idx, pc, lines_by_font, line_idx, headings,
                   size_thresholds, title, driver_vars>>

\* first pass over; the second pass starts at page_num 0
PrepassDone ==
    /\ pc = "prepass"
    /\ page_num = NPages
    /\ pc' = "pages"
    /\ page_num' = 0
    /\ UNCHANGED <<file_idx, char_idx, lines_by_font, line_idx, headings,
                   size_thresholds, title, driver_vars>>

\* second pass, a page begins: lines_by_font = {}
StartPage ==
    /\ pc = "pages"
    /\ page_num < NPages
    /\ lines_by_font' = <<>>
    /\ char_idx' = 0
    /\ pc' = "assemble"
    /\ UNCHANGED <<file_idx, page_num, line_idx, headings, size_thresholds,
                   title, driver_vars>>

\* second pass, one character joins its line
AssembleChar ==
    /\ pc = "assemble"
    /\ char_idx < Len(Chars(page_num + 1))
    /\ lines_by_font' =
           AddChar(lines_by_font, Chars(page_num + 1)[char_idx + 1],
                   page_num + 1)
    /\ char_idx' = char_idx + 1
    /\ UNCHANGED <<file_idx, pc, page_num, line_idx, headings,
                   size_thresholds, title, driver_vars>>

\* second pass, the lines of the page are complete
AssembleDone ==
    /\ pc = "assemble"
    /\ char_idx = Len(Chars(page_num + 1))
    /\ pc' = "classify"
    /\ line_idx' = 0
    /\ UNCHANGED <<file_idx, page_num, char_idx, lines_by_font, headings,
                   size_thresholds, title, driver_vars>>

\* second pass, one entry of lines_by_font.values()
ClassifyLine ==
    /\ pc = "classify"
    /\ line_idx < Len(lines_by_font)
    /\ LET entry == lines_by_font[line_idx + 1]
           line == Strip(entry.text)
       IN  IF line = <<>> \/ Len(line) > MaxLineLen
           THEN UNCHANGED <<headings, size_thresholds, title>>
           ELSE LET accepted == is_heading(line, entry.size, entry.font,
                                           size_thresholds)
                    sizes == is_heading_sizes(line, entry.size,
                                              size_thresholds)
                    level == determine_level(sizes, entry.size)
                IN  /\ size_thresholds' = sizes
                    /\ title' = NextTitle(title, line, entry.size, sizes,
                                          accepted)
                    /\ headings' = NextHeadings(headings, line, entry.page,
                                                level, accepted)
    /\ line_idx' = line_idx + 1
    /\ UNCHANGED <<file_idx, pc, page_num, char_idx, lines_by_font,
                   driver_vars>>

\* second pass, the lines of the page are exhausted
PageDone ==
    /\ pc = "classify"
    /\ line_idx = Len(lines_by_font)
    /\ page_num' = page_num + 1
    /\ pc' = "pages"
    /\ UNCHANGED <<file_idx, char_idx, lines_by_font, line_idx, headings,
                   size_thresholds, title, driver_vars>>

\* return title, self.headings
Return ==
    /\ pc = "pages"
    /\ page_num = NPages
    /\ result' = ReturnResult(title, headings)
    /\ pc' = "returned"
    /\ UNCHANGED <<files, file_idx, page_num, char_idx, lines_by_font,
                   line_idx, headings, size_thresholds, title, results,
                   processed_files, outputs>>

\* an exception anywhere inside the try block
Raise ==
    /\ pc \in {"open", "prepass", "pages", "assemble", "classify"}
    /\ result' = ExceptResult(title, headings)
    /\ pc' = "raised"
    /\ UNCHANGED <<files, file_idx, page_num, char_idx, lines_by_font,
                   line_idx, headings, size_thresholds, title, results,
                   processed_files, outputs>>

\* process_pdfs gets (title, headings) and saves when headings is not empty;
\* save_to_json writes the title it is given and self.headings
Handle ==
    /\ pc \in {"returned", "raised"}
    /\ results' = Append(results, [title |-> result.title,
                                   outline |-> result.outline,
                                   raised |-> pc = "raised"])
    /\ IF result.outline # <<>>
       THEN /\ outputs' = Append(outputs, [file |-> file_idx,
                                           title |-> result.title,
                                           outline |-> headings])
            /\ processed_files' = Append(processed_files, file_idx)
       ELSE UNCHANGED <<outputs, processed_files>>
    /\ pc' = "idle"
    /\ UNCHANGED <<files, file_idx, page_num, char_idx, lines_by_font,
                   line_idx, headings, size_thresholds, title, result>>

Next ==
    \/ Call
    \/ Open
    \/ PrepassChar
    \/ PrepassNextPage
    \/ PrepassDone
    \/ StartPage
    \/ AssembleChar
    \/ AssembleDone
    \/ ClassifyLine
    \/ PageDone
    \/ Return
    \/ Raise
    \/ Handle

Spec == Init /\ [][Next]_vars

(***************************************************************************)
(* Properties                                                               *)
(***************************************************************************)
InCall == file_idx > 0

SecondPass == {"pages", "assemble", "classify"}

\* lines_by_font of the first n characters of a page
RECURSIVE Assemble(_, _, _)
Assemble(chars, n, page) ==
    IF n = 0 THEN <<>>
    ELSE AddChar(Assemble(chars, n - 1, page), chars[n], page)

\* the lines of pages 1..p of the document, in processing order
RECURSIVE LinesUpTo(_)
LinesUpTo(p) ==
    IF p = 0 THEN <<>>
    ELSE LinesUpTo(p - 1) \o Assemble(Chars(p), Len(Chars(p)), p)

\* the rounded tops of the first n characters, each at its first occurrence
RECURSIVE FirstSeenTops(_, _)
FirstSeenTops(chars, n) ==
    IF n = 0 THEN <<>>
    ELSE LET before == FirstSeenTops(chars, n - 1)
             t == Round1(chars[n].top)
         IN  IF \E i \in 1..Len(before) : before[i] = t THEN before
             ELSE Append(before, t)

\* a can be had from b by deleting elements
RECURSIVE IsSubseq(_, _)
IsSubseq(a, b) ==
    IF a = <<>> THEN TRUE
    ELSE IF b = <<>> THEN FALSE
    ELSE IF Head(a) = Head(b) THEN IsSubseq(Tail(a), Tail(b))
    ELSE IsSubseq(a, Tail(b))

AnnualReport == <<"A","N","N","U","A","L"," ","R","E","P","O","R","T">>

Introduction == <<"I","n","t","r","o","d","u","c","t","i","o","n">>

ScenarioDoc == <<1>>

\* C1 as stated: the one-page document "ANNUAL REPORT" (24pt bold),
\* "Introduction" (16pt bold), body line (10pt regular) yields the title
\* "ANNUAL REPORT" and the outline [ANNUAL REPORT p1 H1, Introduction p1 H2].
C1_ScenarioAsStated ==
    (pc = "returned" /\ Doc = ScenarioDoc) =>
        result = [title |-> AnnualReport,
                  outline |-> <<Heading(AnnualReport, 1, "H1"),
                                Heading(Introduction, 1, "H2")>>]

\* C1 amended: on that document the sizes observed are 24.0, 16.0 and 10.0,
\* the title is "ANNUAL REPORT" and the outline is [ANNUAL REPORT p1 H1,
\* Introduction p1 H3] (16 is below 0.8 x 24); the body line is rejected.
C1_Scenario ==
    (pc = "returned" /\ Doc = ScenarioDoc) =>
        /\ Keys(size_thresholds) = {240, 160, 100}
        /\ result = [title |-> AnnualReport,
                     outline |-> <<Heading(AnnualReport, 1, "H1"),
                                   Heading(Introduction, 1, "H3")>>]

C1_Witness ==
    /\ pc = "returned"
    /\ Doc = ScenarioDoc
    /\ Len(result.outline) = 2
    /\ result.outline[2].text = Introduction

\* a line that is classified as a heading and is at least 0.95 x the largest
\* observed size (18.0 when no size was observed)
Qualifies(e) ==
    LET line == Strip(e.text)
    IN  /\ line # <<>>
        /\ Len(line) <= MaxLineLen
        /\ is_heading(line, e.size, e.font, size_thresholds)
        /\ IF size_thresholds = <<>> THEN e.size >= 180
           ELSE 100 * e.size >= 95 * Largest(size_thresholds)

\* C2: the returned title is the text of the first line, in processing
\* order, that is classified as a heading and is at least 0.95 x the largest
\* size; no later heading replaces it, whatever its text ("Untitled" too);
\* it is "Untitled" when no line qualifies.
C2_FirstQualifyingTitle ==
    pc = "returned" =>
        LET lines == LinesUpTo(NPages)
            q == {i \in 1..Len(lines) : Qualifies(lines[i])}
        IN  result.title =
                IF q = {} THEN Untitled ELSE Strip(lines[SetMin(q)].text)

\* C3: a call that raised returns exactly ("Untitled", []), and that is what
\* the driver records for it, whatever had been gathered before.
C3_EmptyOnException ==
    /\ pc = "raised" => result = [title |-> Untitled, outline |-> <<>>]
    /\ \A i \in 1..Len(results) :
           results[i].raised =>
               results[i].title = Untitled /\ results[i].outline = <<>>

C3_Witness ==
    /\ pc = "raised"
    /\ headings # <<>>
    /\ title # Untitled
    /\ result.outline = <<>>

\* the level by exact arithmetic
ExactLevel(st, size) ==
    IF st = <<>> THEN "H3"
    ELSE IF 10 * size >= 9 * Largest(st) THEN "H1"
    ELSE IF 10 * size >= 8 * Largest(st) THEN "H2"
    ELSE "H3"

\* C4: _determine_level(size) is H1 when size >= 0.9 x largest, H2 when
\* 0.8 x largest <= size < 0.9 x largest, H3 otherwise and for the empty
\* histogram, for every size and every histogram an extraction reaches.
C4_LevelsExact ==
    \A size \in 0..MaxSize :
        determine_level(size_thresholds, size)
            = ExactLevel(size_thresholds, size)

\* C5: every key of the size histogram is strictly greater than 0.
C5_KeysPositive == \A k \in Keys(size_thresholds) : k > 0

\* C6 as stated: a returned title set by title detection is the text of the
\* first outline entry (stated for the documents none of whose headings has
\* the default title as its text).
C6_TitleIsFirstEntry ==
    (/\ pc = "returned"
     /\ result.title # Untitled
     /\ \A i \in 1..Len(result.outline) : result.outline[i].text # Untitled)
        => result.outline[1].text = result.title

\* C6 amended: a returned title set by title detection is the text of some
\* outline entry (the title line stays in the outline), not always the first.
C6_TitleInOutline ==
    (pc = "returned" /\ result.title # Untitled) =>
        \E i \in 1..Len(result.outline) :
            result.outline[i].text = result.title

C6_Witness ==
    /\ pc = "returned"
    /\ result.title # Untitled
    /\ result.outline[1].text # result.title
    /\ \E i \in 2..Len(result.outline) :
           result.outline[i].text = result.title

\* C7: on one reused extractor, two calls that returned normally on the same
\* document gave the same (title, outline), the first call of the run being
\* the fresh extractor's; every call starts from an empty heading list and
\* an empty histogram.
C7_NoCrossDocumentState ==
    /\ pc = "open" => headings = <<>> /\ size_thresholds = NoSizes
    /\ \A i, j \in 1..Len(results) :
           (files[i] = files[j] /\ ~results[i].raised /\ ~results[j].raised)
               => results[i] = results[j]

C7_Witness ==
    /\ Len(results) = 3
    /\ files[1] = files[3]
    /\ files[2] # files[1]
    /\ ~results[1].raised
    /\ results[2].raised
    /\ ~results[3].raised
    /\ results[3].outline # <<>>

\* C8: _is_heading is False for a line that is empty after trimming or
\* longer than 100 characters, whatever the size and the font, and every
\* outline entry has between 1 and 100 characters.
C8_LengthGate ==
    /\ \A i \in 1..Len(lines_by_font) :
           LET e == lines_by_font[i]
               line == Strip(e.text)
           IN  (line = <<>> \/ Len(line) > MaxLineLen) =>
                   \A size \in {e.size, 0, 240} :
                       \A font \in {e.font, Bold} :
                           ~is_heading(line, size, font, size_thresholds)
    /\ \A i \in 1..Len(headings) :
           Len(headings[i].text) \in 1..MaxLineLen
    /\ \A i \in 1..Len(result.outline) :
           Len(result.outline[i].text) \in 1..MaxLineLen

C8_Witness ==
    /\ pc = "classify"
    /\ line_idx = Len(lines_by_font)
    /\ \E i \in 1..Len(lines_by_font) :
           /\ Len(Strip(lines_by_font[i].text)) > MaxLineLen
           /\ StartsWith(lines_by_font[i].text, <<"C","h","a","p","t","e","r">>)
           /\ lines_by_font[i].font = Bold
    /\ \E i \in 1..Len(lines_by_font) : Strip(lines_by_font[i].text) = <<>>
    /\ \E i \in 1..Len(headings) : Len(headings[i].text) = MaxLineLen

\* C9: during the second pass no step changes the set of histogram keys
\* (counts only grow), so the average size, the largest size, the levels and
\* the title threshold are the same for every line of the document.
C9_KeysFixedInSecondPass ==
    [][(pc \in SecondPass /\ pc' \in SecondPass) =>
         /\ Len(size_thresholds') = Len(size_thresholds)
         /\ \A i \in 1..Len(size_thresholds) :
                /\ size_thresholds'[i].size = size_thresholds[i].size
                /\ size_thresholds'[i].count >= size_thresholds[i].count
         /\ get_average_font_size(size_thresholds')
                = get_average_font_size(size_thresholds)
         /\ get_title_threshold(size_thresholds')
                = get_title_threshold(size_thresholds)]_vars

C9_Witness ==
    /\ pc = "classify"
    /\ Doc = ScenarioDoc
    /\ line_idx = 3
    /\ \A i \in 1..Len(size_thresholds) : size_thresholds[i].count = 2

\* the outline grows by appending only, within one call
AppendOnly ==
    file_idx' = file_idx =>
        \/ headings' = headings
        \/ /\ Len(headings') = Len(headings) + 1
           /\ SubSeq(headings', 1, Len(headings)) = headings

\* pages of the outline do not decrease and are pages of the document; the
\* lines of a page stand in the order their rounded tops were first seen,
\* and the headings of the page are taken from them in that order
OutlineOrder ==
    InCall =>
        /\ \A i \in 1..Len(headings) : headings[i].page \in 1..NPages
        /\ \A i, j \in 1..Len(headings) :
               i < j => headings[i].page <= headings[j].page
        /\ pc \in {"assemble", "classify"} =>
               /\ [i \in 1..Len(lines_by_font) |-> lines_by_font[i].top]
                      = FirstSeenTops(Chars(page_num + 1), char_idx)
               /\ IsSubseq(
                      [i \in 1..Len(SelectSeq(headings,
                                       LAMBDA h : h.page = page_num + 1)) |->
                          SelectSeq(headings,
                              LAMBDA h : h.page = page_num + 1)[i].text],
                      [i \in 1..Len(lines_by_font) |->
                          Strip(lines_by_font[i].text)])

\* C10: the outline only grows by appending; its page numbers are
\* non-decreasing and within 1..number of pages; headings of one page come
\* in the order in which their rounded tops were first seen in the page's
\* characters, not in vertical order.
C10_InsertionOrder == []OutlineOrder /\ [][AppendOnly]_vars

C10_Witness ==
    /\ pc = "classify"
    /\ line_idx = Len(lines_by_font)
    /\ Len(lines_by_font) = 3
    /\ lines_by_font[1].top > lines_by_font[2].top
    /\ Len(headings) = 3
    /\ headings[1].text = Strip(lines_by_font[1].text)
    /\ headings[2].text = Strip(lines_by_font[2].text)
====
